---------------------------- MODULE Spec2Model ----------------------------
(* Ranking and scoring engine of the Sustainable-Energy-Systems app:       *)
(*   _rank_options            (feature_transition_generation.py)           *)
(*   Recommender.score_options (recommender.py)                            *)
(*   slider weight normalisation of the transport / home-utilities pages   *)
(*                             (app.py)                                    *)
(* Python floats are modelled as exact rationals plus the two special      *)
(* values inf and NaN, so that pandas' NaN handling (replace, fillna,      *)
(* skipna reductions, clip, where) is computed rather than assumed.        *)
EXTENDS Integers, Sequences, FiniteSets, TLC

VARIABLES
    pc,                 \* handler whose result the session currently shows
    rows,               \* option rows in insertion order (the list `rows`)
    df,                 \* the table the handler returned
    weights,            \* weight vector used for the composite score
    pvwatts_used_any,   \* second component of _rank_options' result
    pvwatts_last_error, \* st.session_state["pvwatts_last_error"]
    args,               \* arguments of the call whose result is shown
    tou,                \* locals of the running ev_tou_cost call
    eia,                \* the EIA client object and the requests it sent
    nrel,               \* the NRELClient object and the requests it sent
    ret,                \* value the last tool or client call returned
    session_state,      \* st.session_state: the page, the widgets, the game keys
    rendered            \* greatest sustainability score rendered so far

vars == <<pc, rows, df, weights, pvwatts_used_any, pvwatts_last_error, args,
          tou, eia, nrel, ret, session_state, rendered>>

\* the variables of the ranking and scoring engine
engine == <<rows, df, weights, pvwatts_used_any, pvwatts_last_error>>

\* the variables of the tools and of the remote clients
services == <<tou, eia, nrel, ret>>

\* the session store and what the game page has rendered
session == <<session_state, rendered>>

-----------------------------------------------------------------------------
(* Float values: [k, n, d] with k in {"num","inf","nan"}; a "num" is the   *)
(* reduced fraction n/d with d > 0.                                        *)

\* GCD, Q, FAdd and FMul bind their arguments to values before computing
\* with them, so that an argument is evaluated once however often it is used.

Abs(x) == IF x < 0 THEN -x ELSE x

RECURSIVE GCD(_, _)
GCD(a, b) ==
    IF b = 0 THEN a ELSE CHOOSE g \in {GCD(y, x % y) : x \in {a}, y \in {b}} : TRUE

Q(n, d) ==
    CHOOSE q \in {[k |-> "num", n |-> (s * x) \div g, d |-> (s * y) \div g] :
                     <<x, y, s, g>> \in {<<u, v, IF v < 0 THEN -1 ELSE 1, GCD(Abs(u), Abs(v))>> :
                                            u \in {n}, v \in {d}}} : TRUE

Inf == [k |-> "inf", n |-> 1, d |-> 0]

NaN == [k |-> "nan", n |-> 0, d |-> 0]

Zero == Q(0, 1)

One == Q(1, 1)

IsNum(a) == a.k = "num"

IsNaN(a) == a.k = "nan"

IsInf(a) == a.k = "inf"

\* a/b < c/d for b, d > 0, by comparing the integer parts and then the
\* reciprocals of the fractional parts (no products, so no overflow)
RECURSIVE FracLess(_, _, _, _)
FracLess(a, b, c, d) ==
    LET q1 == a \div b
        q2 == c \div d
        r1 == a % b
        r2 == c % d
    IN  IF q1 # q2 THEN q1 < q2
        ELSE IF r2 = 0 THEN FALSE
        ELSE IF r1 = 0 THEN TRUE
        ELSE FracLess(d, r2, b, r1)

\* a < b on floats; any comparison with NaN is False, inf is above every num
FLt(a, b) ==
    IF IsNaN(a) \/ IsNaN(b) THEN FALSE
    ELSE IF IsInf(a) THEN FALSE
    ELSE IF IsInf(b) THEN TRUE
    ELSE FracLess(a.n, a.d, b.n, b.d)

FEq(a, b) ==
    \/ (IsNum(a) /\ IsNum(b) /\ a.n = b.n /\ a.d = b.d)
    \/ (IsInf(a) /\ IsInf(b))

FLe(a, b) == FLt(a, b) \/ FEq(a, b)

FAdd(a, b) ==
    CHOOSE r \in
        {IF IsNaN(x) \/ IsNaN(y) THEN NaN
         ELSE IF IsInf(x) \/ IsInf(y) THEN Inf
         ELSE LET g == GCD(x.d, y.d)
              IN  Q(x.n * (y.d \div g) + y.n * (x.d \div g), (x.d \div g) * y.d) :
            x \in {a}, y \in {b}} : TRUE

FNeg(a) == IF IsNum(a) THEN [a EXCEPT !.n = -a.n] ELSE a

FSub(a, b) == FAdd(a, FNeg(b))

FMul(a, b) ==
    CHOOSE r \in
        {IF IsNaN(x) \/ IsNaN(y) THEN NaN
         ELSE IF IsInf(x) \/ IsInf(y)
              THEN IF (IsNum(x) /\ x.n = 0) \/ (IsNum(y) /\ y.n = 0) THEN NaN ELSE Inf
         ELSE LET g1 == GCD(Abs(x.n), y.d)
                  g2 == GCD(Abs(y.n), x.d)
              IN  [k |-> "num",
                   n |-> (x.n \div g1) * (y.n \div g2),
                   d |-> (x.d \div g2) * (y.d \div g1)] :
            x \in {a}, y \in {b}} : TRUE

\* numpy division: x/NaN = NaN, num/inf = 0, inf/inf = NaN, 0/0 = NaN, x/0 = inf
FDiv(a, b) ==
    IF IsNaN(a) \/ IsNaN(b) THEN NaN
    ELSE IF IsInf(b) THEN (IF IsInf(a) THEN NaN ELSE Zero)
    ELSE IF IsInf(a) THEN Inf
    ELSE IF b.n = 0 THEN (IF a.n = 0 THEN NaN ELSE Inf)
    ELSE FMul(a, Q(b.d, b.n))

\* Python's built-in min(a, b) / max(a, b): the first argument unless the
\* second compares strictly smaller / larger
PyMin(a, b) == IF FLt(b, a) THEN b ELSE a

PyMax(a, b) == IF FLt(a, b) THEN b ELSE a

\* Python truthiness of a float or None-as-zero: `x or default`
PyOr(x, default) == IF IsNum(x) /\ x.n = 0 THEN default ELSE x

-----------------------------------------------------------------------------
(* Series helpers (pandas): a Series is a sequence of floats.              *)

Range(s) == {s[i] : i \in DOMAIN s}

\* Series.max(), skipna=True; NaN when every entry is NaN
SeriesMax(s) ==
    LET vals == {v \in Range(s) : ~IsNaN(v)}
    IN  IF vals = {} THEN NaN
        ELSE CHOOSE m \in vals : \A v \in vals : FLe(v, m)

\* Series.min(), skipna=True; NaN when every entry is NaN
SeriesMin(s) ==
    LET vals == {v \in Range(s) : ~IsNaN(v)}
    IN  IF vals = {} THEN NaN
        ELSE CHOOSE m \in vals : \A v \in vals : FLe(m, v)

\* Series.clip(lower=lo): NaN stays NaN
ClipLower(v, lo) == IF IsNaN(v) THEN v ELSE IF FLt(v, lo) THEN lo ELSE v

\* Series.clip(lower=lo, upper=hi)
Clip(v, lo, hi) ==
    IF IsNaN(v) THEN v ELSE IF FLt(v, lo) THEN lo ELSE IF FLt(hi, v) THEN hi ELSE v

\* Series.fillna(x)
FillNa(v, x) == IF IsNaN(v) THEN x ELSE v

-----------------------------------------------------------------------------
(* Weights.                                                                *)

\* _goal_weights(goal) -> (w_s, w_c, w_p); the source spells the third goal
\* with a subscript two
GoalWeights(goal) ==
    IF goal = "Lower my bill" THEN <<Q(6, 10), Q(2, 10), Q(2, 10)>>
    ELSE IF goal = "Maximize CO2 reduction" THEN <<Q(3, 10), Q(6, 10), Q(1, 10)>>
    ELSE <<Q(4, 10), Q(4, 10), Q(2, 10)>>

RECURSIVE SeqSum(_)
SeqSum(s) == IF s = <<>> THEN Zero ELSE FAdd(s[1], SeqSum(Tail(s)))

\* the sliders of the transport and home-utilities pages run from 0 to
\* SliderMax
SliderMax == 10

\* a plausible slip: the raw_sum == 0 branch is missing
SliderWeightsNoDefault(raw_vec, default) ==
    [i \in DOMAIN raw_vec |-> FDiv(raw_vec[i], SeqSum(raw_vec))]

\* raw_vec = np.array([...], dtype=float); raw_sum = raw_vec.sum();
\* weights = default if raw_sum == 0 else raw_vec / raw_sum
SliderWeights(raw_vec, default) ==
    LET raw_sum == SeqSum(raw_vec)
    IN  IF FEq(raw_sum, Zero) THEN default
        ELSE [i \in DOMAIN raw_vec |-> FDiv(raw_vec[i], raw_sum)]

\* the default vectors of the two pages
TransportDefaultWeights == <<Q(2, 10), Q(4, 10), Q(3, 10), Q(1, 10)>>

HomeDefaultWeights == <<Q(25, 100), Q(25, 100), Q(25, 100), Q(25, 100)>>

-----------------------------------------------------------------------------
(* PV and wind estimators.                                                 *)

\* a remote call that returned None
NoneVal == [k |-> "none", n |-> 0, d |-> 0]

\* DataConnectors.solar_resource(lat, lon)["GHI_kWhm2_day"], also the default
GHI == Q(42, 10)

\* NRELClient.pvwatts_ac_annual as seen by its caller: None on any failure,
\* else float(outputs.ac_annual); the service's answer is its specific yield
\* (kWh per kWdc, `yield`) times the requested system_capacity
PvwattsAcAnnual(yield, kwdc) ==
    IF yield.k = "none" THEN NoneVal ELSE FMul(kwdc, yield)

\* a plausible slip: a failed request is sent once more before falling back
PvKwhYearRetry(latlon, key, resp, kwdc, tilt_deg, shading_pct) ==
    LET called == latlon /\ key
        ok == called /\ resp.k # "none"
        base == FMul(Q(300, 1), GHI)
        tilt_factor == FSub(One, PyMin(Q(5, 10), FMul(Q(Abs(tilt_deg - 30), 1), Q(1, 100))))
        shading_factor == PyMax(Zero, FSub(One, FDiv(shading_pct, Q(100, 1))))
        kwh == FMul(FMul(FMul(kwdc, base), tilt_factor), shading_factor)
    IN  [kwh   |-> IF ok THEN resp ELSE kwh,
         used  |-> ok,
         err   |-> IF ~latlon \/ ok THEN "None"
                   ELSE IF ~key THEN "NREL_API_KEY not available."
                   ELSE "PVWatts error",
         calls |-> IF ~called THEN 0 ELSE IF ok THEN 1 ELSE 2]

\* a plausible slip: the flag is raised as soon as PVWatts has been asked
PvKwhYearFlagOnCall(latlon, key, resp, kwdc, tilt_deg, shading_pct) ==
    LET called == latlon /\ key
        ok == called /\ resp.k # "none"
        base == FMul(Q(300, 1), GHI)
        tilt_factor == FSub(One, PyMin(Q(5, 10), FMul(Q(Abs(tilt_deg - 30), 1), Q(1, 100))))
        shading_factor == PyMax(Zero, FSub(One, FDiv(shading_pct, Q(100, 1))))
        kwh == FMul(FMul(FMul(kwdc, base), tilt_factor), shading_factor)
    IN  [kwh   |-> IF ok THEN resp ELSE kwh,
         used  |-> called,
         err   |-> IF ~latlon \/ ok THEN "None"
                   ELSE IF ~key THEN "NREL_API_KEY not available."
                   ELSE "PVWatts error",
         calls |-> IF called THEN 1 ELSE 0]

\* a plausible slip: the fallback without the tilt factor
PvKwhYearNoTilt(latlon, key, resp, kwdc, tilt_deg, shading_pct) ==
    LET called == latlon /\ key
        ok == called /\ resp.k # "none"
        shading_factor == PyMax(Zero, FSub(One, FDiv(shading_pct, Q(100, 1))))
    IN  [kwh   |-> IF ok THEN resp
                   ELSE FMul(FMul(kwdc, FMul(Q(300, 1), GHI)), shading_factor),
         used  |-> ok,
         err   |-> IF ~latlon \/ ok THEN "None"
                   ELSE IF ~key THEN "NREL_API_KEY not available."
                   ELSE "PVWatts error",
         calls |-> IF called THEN 1 ELSE 0]

\* _pv_kwh_year: latlon = lat and lon are both present, key = nrel.available(),
\* resp = what pvwatts_ac_annual returns when it is called.
\* Result: kwh, used (pvwatts_used), err (pvwatts_last_error on return),
\* calls (PVWatts requests issued).
PvKwhYear(latlon, key, resp, kwdc, tilt_deg, shading_pct) ==
    LET called == latlon /\ key
        ok == called /\ resp.k # "none"
        base == FMul(Q(300, 1), GHI)
        tilt_factor == FSub(One, PyMin(Q(5, 10), FMul(Q(Abs(tilt_deg - 30), 1), Q(1, 100))))
        shading_factor == PyMax(Zero, FSub(One, FDiv(shading_pct, Q(100, 1))))
        kwh == FMul(FMul(FMul(kwdc, base), tilt_factor), shading_factor)
    IN  [kwh   |-> IF ok THEN resp ELSE kwh,
         used  |-> ok,
         err   |-> IF ~latlon \/ ok THEN "None"
                   ELSE IF ~key THEN "NREL_API_KEY not available."
                   ELSE "PVWatts error",
         calls |-> IF called THEN 1 ELSE 0]

\* _wind_kwh_year(acres, mw_per_km2, cf)
WindKwhYear(acres, mw_per_km2, cf) ==
    LET km2 == FDiv(acres, Q(247105, 1000))
        capacity_mw == FMul(km2, mw_per_km2)
    IN  FMul(FMul(FMul(capacity_mw, Q(1000, 1)), Q(8760, 1)), cf)

\* Python round(x, 1) for x >= 0 (round half to even on the exact value)
Round1(x) ==
    LET t == 10 * x.n
        f == t \div x.d
        r == t % x.d
        up == (2 * r > x.d) \/ (2 * r = x.d /\ f % 2 = 1)
    IN  Q(IF up THEN f + 1 ELSE f, 10)

-----------------------------------------------------------------------------
(* _rank_options: the option generator.  `a` is the record of arguments     *)
(* (scenario, widgets) and of what the environment answers (latlon, key,   *)
(* yield1, yield2: the answers to the two possible PVWatts calls).          *)

\* kw_roof from the roof area, or inferred from the annual load
KwRoof(roof_area_m2, annual_kwh) ==
    IF FLt(Zero, roof_area_m2) THEN PyMax(Zero, FMul(roof_area_m2, Q(2, 10)))
    ELSE PyMax(One, Round1(FDiv(annual_kwh, Q(1400, 1))))

\* extra_kw of the ground / carport array
ExtraKw(annual_kwh, kw_roof) ==
    PyMax(Zero, FSub(FDiv(annual_kwh, Q(1000, 1)), kw_roof))

\* pv_useful_kwh, wind_useful_kwh: min(kwh, annual_kwh * (target_load_pct / 100.0))
UsefulKwh(kwh, annual_kwh, target_load_pct) ==
    PyMin(kwh, FMul(annual_kwh, FDiv(target_load_pct, Q(100, 1))))

\* a plausible slip: the ground array is capped on its own, as the rooftop
\* array and the wind option are
ExtraUsefulKwhOwnCap(extra_kwh, annual_kwh, target_load_pct, pv_useful_kwh) ==
    PyMin(extra_kwh, FMul(annual_kwh, FDiv(target_load_pct, Q(100, 1))))

\* extra_useful_kwh: what is left of the target after the rooftop array
ExtraUsefulKwh(extra_kwh, annual_kwh, target_load_pct, pv_useful_kwh) ==
    PyMin(extra_kwh,
          PyMax(Zero, FSub(FMul(annual_kwh, FDiv(target_load_pct, Q(100, 1))),
                           pv_useful_kwh)))

\* community solar: sub_pct, and cs_kwh * (target_load_pct / 100.0)
SubPct(category) ==
    IF category \in {"Individual", "Business"} THEN Q(5, 10)
    ELSE IF category = "Community" THEN Q(4, 10)
    ELSE Q(3, 10)

\* green tariff: green_pct
GreenPct(category) ==
    IF category \in {"Individual", "Business"} THEN Q(5, 10) ELSE Q(3, 10)

\* approx_kw of the wind option
ApproxKw(wind_kwh, wind_cf) ==
    IF FLt(Zero, wind_cf) THEN FDiv(wind_kwh, FMul(Q(8760, 1), wind_cf)) ELSE Zero

\* one appended dict; Load_Covered is the column "Load_Covered_%".  The
\* Technology label is kept without the size the source formats into it, and
\* the constant column "Type" is left out: neither is read by the ranking.
OptionRow(technology, capex, kwh, useful_kwh, annual_kwh, savings, grid, notes) ==
    [Technology |-> technology,
     Capex_USD |-> capex,
     Annual_kWh |-> kwh,
     Load_Covered |-> FMul(FDiv(useful_kwh, annual_kwh), Q(100, 1)),
     Annual_Savings_USD |-> savings,
     CO2e_Reduction_tpy |-> FDiv(FMul(useful_kwh, grid), Q(1000, 1)),
     Notes |-> notes]

PvNotes(used) == IF used THEN "PVWatts" ELSE "rule-of-thumb"

\* the body of _rank_options up to `df = pd.DataFrame(rows)`:
\* rows (in append order), pvwatts_used_any, and the session's
\* pvwatts_last_error (every _pv_kwh_year call first resets it, so the last
\* call made decides)
OptionRows(a) ==
    LET annual_kwh == PyOr(a.annual, Q(10000, 1))
        grid == PyOr(a.grid, Q(38, 100))
        kw_roof == KwRoof(a.roof, annual_kwh)
        pv == PvKwhYear(a.latlon, a.key, PvwattsAcAnnual(a.yield1, kw_roof),
                        kw_roof, a.tilt, a.shading)
        pv_useful_kwh == UsefulKwh(pv.kwh, annual_kwh, a.target)
        rooftop == OptionRow("Rooftop PV", FMul(kw_roof, a.pv_rooftop_cost_kw),
                             pv.kwh, pv_useful_kwh, annual_kwh,
                             FMul(pv_useful_kwh, a.rate), grid, PvNotes(pv.used))
        extra_kw == ExtraKw(annual_kwh, kw_roof)
        has_ground == a.category \in {"Business", "Community", "City"}
                      /\ FLt(Zero, extra_kw)
        extra == PvKwhYear(a.latlon, a.key, PvwattsAcAnnual(a.yield2, extra_kw),
                           extra_kw, a.tilt, a.shading)
        extra_useful_kwh ==
            ExtraUsefulKwh(extra.kwh, annual_kwh, a.target, pv_useful_kwh)
        ground == OptionRow("Ground/Carport PV", FMul(extra_kw, a.pv_ground_cost_kw),
                            extra.kwh, extra_useful_kwh, annual_kwh,
                            FMul(extra_useful_kwh, a.rate), grid, PvNotes(extra.used))
        cs_kwh == FMul(annual_kwh, SubPct(a.category))
        cs_useful_kwh == FMul(cs_kwh, FDiv(a.target, Q(100, 1)))
        community == OptionRow("Community Solar Subscription", Zero,
                               cs_kwh, cs_useful_kwh, annual_kwh,
                               FMul(cs_useful_kwh, FMul(a.cs_discount, a.rate)),
                               grid, "bill credit")
        green_kwh == FMul(FMul(annual_kwh, GreenPct(a.category)),
                          FDiv(a.target, Q(100, 1)))
        green == OptionRow("Utility Green Power / RECs", Zero,
                           green_kwh, green_kwh, annual_kwh,
                           FNeg(FMul(green_kwh, a.green_premium)), grid, "premium")
        has_wind == FLt(Zero, a.wind_acres)
        wind_kwh == WindKwhYear(a.wind_acres, a.wind_density, a.wind_cf)
        wind_useful_kwh == UsefulKwh(wind_kwh, annual_kwh, a.target)
        wind == OptionRow("Onshore Wind",
                          FMul(ApproxKw(wind_kwh, a.wind_cf), a.wind_cost_kw),
                          wind_kwh, wind_useful_kwh, annual_kwh,
                          FMul(wind_useful_kwh, a.rate), grid, "acreage")
    IN  [rows |-> <<rooftop>>
                  \o (IF has_ground THEN <<ground>> ELSE <<>>)
                  \o <<community, green>>
                  \o (IF has_wind THEN <<wind>> ELSE <<>>),
         pvwatts_used_any |-> pv.used \/ (has_ground /\ extra.used),
         pvwatts_last_error |-> IF has_ground THEN extra.err ELSE pv.err,
         pvwatts_calls |-> pv.calls + (IF has_ground THEN extra.calls ELSE 0)]

-----------------------------------------------------------------------------
(* _rank_options: the ranking step (payback, normalisation, score, sort).  *)

\* a plausible slip: the division without the savings > 0 guard
PaybackYrUnguarded(capex, savings) == FDiv(capex, savings)

\* np.where(savings > 0, capex / savings, np.inf)
PaybackYr(capex, savings) ==
    IF FLt(Zero, savings) THEN FDiv(capex, savings) ELSE Inf

\* a plausible slip: only inf is replaced, a payback of 0 stays
ReplaceInfOnly(v) == IF IsInf(v) THEN NaN ELSE v

\* Series.replace([np.inf, 0], np.nan)
ReplaceInfZero(v) == IF IsInf(v) \/ (IsNum(v) /\ v.n = 0) THEN NaN ELSE v

\* plausible slips: the column minimum in place of the maximum, and the
\* min-max scaling used by the recommender
NormHigherByMin(col) ==
    LET x == [i \in DOMAIN col |-> ClipLower(col[i], Zero)]
        m == PyOr(SeriesMin(x), One)
    IN  [i \in DOMAIN col |-> FDiv(x[i], m)]

NormHigherMinMax(col) ==
    LET x == [i \in DOMAIN col |-> ClipLower(col[i], Zero)]
        lo == SeriesMin(x)
        m == PyOr(FSub(SeriesMax(x), lo), One)
    IN  [i \in DOMAIN col |-> FDiv(FSub(x[i], lo), m)]

\* higher-is-better column: x = col.clip(lower=0); x / (x.max() or 1.0)
NormHigher(col) ==
    LET x == [i \in DOMAIN col |-> ClipLower(col[i], Zero)]
        m == PyOr(SeriesMax(x), One)
    IN  [i \in DOMAIN col |-> FDiv(x[i], m)]

\* a plausible slip: a row without a payback is given the best sub-score
NormPaybackMissingIsBest(col) ==
    LET p == [i \in DOMAIN col |-> ReplaceInfZero(col[i])]
        min_p == SeriesMin(p)
    IN  [i \in DOMAIN col |->
            IF ~IsNaN(p[i]) THEN Clip(FDiv(min_p, p[i]), Zero, One) ELSE One]

\* payback column: p = col.replace([inf, 0], nan);
\* min_p = p.min() if not p.isna().all() else nan;
\* np.where(p.notna(), (min_p / p).clip(lower=0, upper=1), 0.0)
NormPayback(col) ==
    LET p == [i \in DOMAIN col |-> ReplaceInfZero(col[i])]
        min_p == SeriesMin(p)
    IN  [i \in DOMAIN col |->
            IF ~IsNaN(p[i]) THEN Clip(FDiv(min_p, p[i]), Zero, One) ELSE Zero]

\* w_s * norm_s + w_c * norm_c + w_p * norm_p, then .fillna(0)
RankScore(w, ns, nc, np) ==
    FillNa(FAdd(FAdd(FMul(w[1], ns), FMul(w[2], nc)), FMul(w[3], np)), Zero)

\* the table before the sort: rows plus Payback_yr, Score_0to1 and the
\* sub-scores norm_s, norm_c, norm_p the score was computed from
RankTable(rws, goal) ==
    LET pb == [i \in DOMAIN rws |->
                  PaybackYr(rws[i].Capex_USD, rws[i].Annual_Savings_USD)]
        ns == NormHigher([i \in DOMAIN rws |-> rws[i].Annual_Savings_USD])
        nc == NormHigher([i \in DOMAIN rws |-> rws[i].CO2e_Reduction_tpy])
        np == NormPayback(pb)
        w  == GoalWeights(goal)
    IN  [i \in DOMAIN rws |->
            [Technology |-> rws[i].Technology,
             Capex_USD |-> rws[i].Capex_USD,
             Annual_kWh |-> rws[i].Annual_kWh,
             Load_Covered |-> rws[i].Load_Covered,
             Annual_Savings_USD |-> rws[i].Annual_Savings_USD,
             CO2e_Reduction_tpy |-> rws[i].CO2e_Reduction_tpy,
             Notes |-> rws[i].Notes,
             Payback_yr |-> pb[i],
             norm_s |-> ns[i], norm_c |-> nc[i], norm_p |-> np[i],
             Score_0to1 |-> RankScore(w, ns[i], nc[i], np[i])]]

\* row i is placed strictly before row j by a descending sort, NaN last
Precedes(key, i, j) ==
    \/ (~IsNaN(key[i]) /\ IsNaN(key[j]))
    \/ FLt(key[j], key[i])

\* DataFrame.sort_values(col, ascending=False) with the default kind
\* (quicksort, not stable): every order that is descending in the key; rows
\* with equal keys may come out in any relative order.
RECURSIVE SortedOrders(_, _)
SortedOrders(S, key) ==
    IF S = {} THEN {<<>>}
    ELSE LET top == {i \in S : \A j \in S : ~Precedes(key, j, i)}
         IN  UNION {{<<i>> \o r : r \in SortedOrders(S \ {i}, key)} : i \in top}

\* a plausible slip: the table is returned as built, without the sort
InsertionOrder(key) == {[i \in DOMAIN key |-> i]}

SortDescending(key) == SortedOrders(DOMAIN key, key)

\* the rows of t in the order given by the index sequence `order`
Reorder(t, order) == [k \in DOMAIN order |-> t[order[k]]]

-----------------------------------------------------------------------------
(* Recommender.score_options.                                              *)

\* simple_payback(capex, annual_savings)
simple_payback(capex, annual_savings) ==
    IF FLt(Zero, annual_savings) THEN FDiv(capex, annual_savings) ELSE Inf

\* pv_energy_yield_kw(lat, lon, system_kwdc): 300 * GHI per kWdc
pv_energy_yield_kw(system_kwdc) == FMul(system_kwdc, FMul(Q(300, 1), GHI))

\* one appended dict; LCOE_USD_per_kWh is carried only as present / NaN (the
\* score does not read it; discount_rate >= 0.01 and analysis_years >= 10
\* from the sidebar keep lcoe's denominators away from zero)
ScoreRow(option, category, capex, gen, savings, lcoe, co2_kg, practicality) ==
    [Option |-> option,
     Category |-> category,
     Capex_USD |-> capex,
     Annual_Gen_kWh |-> gen,
     Annual_Savings_USD |-> savings,
     Simple_Payback_yr |-> simple_payback(capex, savings),
     LCOE_USD_per_kWh |-> lcoe,
     CO2e_Reduction_tpy |-> FDiv(co2_kg, Q(1000, 1)),
     Practicality |-> practicality]

\* the body of score_options up to `df = pd.DataFrame(rows)`
ScoreRows(a) ==
    LET annual_kwh == PyOr(a.annual, Q(10000, 1))
        pv_size_kw == PyMax(One, Round1(FDiv(annual_kwh, Q(1400, 1))))
        pv_gen == pv_energy_yield_kw(pv_size_kw)
        pv_capex == FMul(pv_size_kw, Q(1800, 1))
        rate == a.rate
        grid == a.grid
        pv == ScoreRow("Solar PV", "generation", pv_capex, pv_gen,
                       FMul(PyMin(pv_gen, annual_kwh), rate), "finite",
                       FMul(PyMin(pv_gen, annual_kwh), grid), Q(8, 10))
        eff == ScoreRow("Efficiency: LED + HVAC tune-up", "efficiency",
                        FMul(Q(5, 100), pv_capex), Zero,
                        FMul(FMul(Q(8, 100), annual_kwh), rate), "NaN",
                        FMul(FMul(Q(8, 100), annual_kwh), grid), Q(95, 100))
        hpwh == ScoreRow("Heat Pump Water Heater", "utilities",
                         Q(2000, 1), Zero, FMul(Q(1200, 1), rate), "NaN",
                         FMul(Q(1200, 1), grid), Q(9, 10))
        veh_vmt == Q(12000, 1)
        mpg_gas == Q(25, 1)
        gas_price == Q(35, 10)
        ef_gas == Q(889, 100)
        kwh_per_mile_bev == Q(30, 100)
        gal_per_year == FDiv(veh_vmt, mpg_gas)
        cost_gas == FMul(gal_per_year, gas_price)
        co2_gas_kg == FMul(gal_per_year, ef_gas)
        kwh_ev == FMul(veh_vmt, kwh_per_mile_bev)
        ev_savings == PyMax(Zero, FSub(cost_gas, FMul(kwh_ev, rate)))
        ev_co2_saved_kg == PyMax(Zero, FSub(co2_gas_kg, FMul(kwh_ev, grid)))
        ev == ScoreRow("Transport: replace one gasoline car with a battery EV",
                       "transport", Q(10000, 1), Zero, ev_savings, "NaN",
                       ev_co2_saved_kg, Q(7, 10))
        gal_saved == FDiv(FMul(veh_vmt, Q(25, 100)), mpg_gas)
        mode == ScoreRow("Transport: shift ~25% of trips to transit / walking / biking",
                         "transport", Q(500, 1), Zero,
                         FMul(FMul(gal_saved, gas_price), Q(8, 10)), "NaN",
                         FMul(gal_saved, ef_gas), Q(85, 100))
    IN  <<pv, eff>>
        \o (IF a.building_type = "residential" THEN <<hpwh>> ELSE <<>>)
        \o <<ev, mode>>

\* norm_min(x): x.min() / x.replace(0, np.nan)
norm_min(x) ==
    LET m == SeriesMin(x)
    IN  [i \in DOMAIN x |->
            FDiv(m, IF IsNum(x[i]) /\ x[i].n = 0 THEN NaN ELSE x[i])]

\* norm_max(x): (x - x.min()) / (x.max() - x.min() + 1e-9).  The 1e-9 is
\* below the resolution of the exact values kept here, so the quotient is
\* taken in the limit 1e-9 -> 0+: (x - min) / (max - min) when the range is
\* positive (the code's value is smaller by the relative amount
\* 1e-9 / range), and 0 / 1e-9 = 0 when the range is zero.
norm_max(x) ==
    LET lo == SeriesMin(x)
        hi == SeriesMax(x)
        range == FSub(hi, lo)
    IN  [i \in DOMAIN x |->
            IF IsNum(range) /\ range.n = 0 THEN FMul(FSub(x[i], lo), Zero)
            ELSE FDiv(FSub(x[i], lo), range)]

\* the weights w of the MCDA score, in the order payback, savings, CO2e,
\* practicality
McdaWeights == <<Q(30, 100), Q(25, 100), Q(25, 100), Q(20, 100)>>

\* df["MCDA_Score_0to1"]
McdaScore(w, sp, ss, sc, spr) ==
    FAdd(FAdd(FAdd(FMul(w[1], sp), FMul(w[2], ss)), FMul(w[3], sc)), FMul(w[4], spr))

\* the table before the sort, with the index column idx
ScoreTable(rws) ==
    LET pb == [i \in DOMAIN rws |-> rws[i].Simple_Payback_yr]
        sp == norm_min([i \in DOMAIN rws |-> FillNa(pb[i], SeriesMax(pb))])
        ss == norm_max([i \in DOMAIN rws |-> FillNa(rws[i].Annual_Savings_USD, Zero)])
        sc == norm_max([i \in DOMAIN rws |-> FillNa(rws[i].CO2e_Reduction_tpy, Zero)])
        spr == norm_max([i \in DOMAIN rws |-> FillNa(rws[i].Practicality, Zero)])
    IN  [i \in DOMAIN rws |->
            [idx |-> i,
             Option |-> rws[i].Option,
             Category |-> rws[i].Category,
             Capex_USD |-> rws[i].Capex_USD,
             Annual_Gen_kWh |-> rws[i].Annual_Gen_kWh,
             Annual_Savings_USD |-> rws[i].Annual_Savings_USD,
             Simple_Payback_yr |-> rws[i].Simple_Payback_yr,
             LCOE_USD_per_kWh |-> rws[i].LCOE_USD_per_kWh,
             CO2e_Reduction_tpy |-> rws[i].CO2e_Reduction_tpy,
             Practicality |-> rws[i].Practicality,
             score_payback |-> sp[i], score_savings |-> ss[i],
             score_co2e |-> sc[i], score_practicality |-> spr[i],
             MCDA_Score_0to1 |-> McdaScore(McdaWeights, sp[i], ss[i], sc[i], spr[i])]]

-----------------------------------------------------------------------------
(* Inputs.                                                                 *)

\* annual electricity use: 0 (not given) and multiples of 7000 kWh, a
\* multiple of the widget's step of 500 for which the inferred array size
\* annual_kwh / 1400 is a whole number of kW
MaxLoadSteps == 3

AnnualLoads == {Q(7000 * k, 1) : k \in 0..MaxLoadSteps}

CATEGORY_LABELS == {"Individual", "Business", "Community", "City"}

Goals == {"Balanced", "Lower my bill", "Maximize CO2 reduction"}

\* the goals a caller may hand to _rank_options: the selectbox's three and a
\* string that is none of them
GoalStrings == Goals \cup {"Be independent of the grid"}

\* electricity rate, grid intensity and unit costs: the app's defaults, free
\* electricity (rate, grid figure and bill credit 0) with a green premium,
\* and free equipment at the default tariff
Economics ==
    {[rate |-> Q(18, 100), grid |-> Q(38, 100), pv_rooftop_cost_kw |-> Q(1800, 1),
      pv_ground_cost_kw |-> Q(1500, 1), wind_cost_kw |-> Q(1500, 1),
      green_premium |-> Q(1, 100), cs_discount |-> Q(10, 100)],
     [rate |-> Zero, grid |-> Zero, pv_rooftop_cost_kw |-> Q(1800, 1),
      pv_ground_cost_kw |-> Q(1500, 1), wind_cost_kw |-> Q(1500, 1),
      green_premium |-> Q(1, 100), cs_discount |-> Zero],
     [rate |-> Q(18, 100), grid |-> Q(38, 100), pv_rooftop_cost_kw |-> Zero,
      pv_ground_cost_kw |-> Zero, wind_cost_kw |-> Zero,
      green_premium |-> Zero, cs_discount |-> Q(10, 100)]}

\* what the environment offers the two PVWatts calls: no lat/lon, no API key,
\* or a key and an answer (None = failure, else kWh per kWdc) to each call
PvwattsYields == {NoneVal, Q(1300, 1)}

PvEnvs ==
    {[latlon |-> FALSE, key |-> FALSE, yield1 |-> NoneVal, yield2 |-> NoneVal],
     [latlon |-> TRUE, key |-> FALSE, yield1 |-> NoneVal, yield2 |-> NoneVal]}
    \cup {[latlon |-> TRUE, key |-> TRUE, yield1 |-> y1, yield2 |-> y2] :
             y1 \in PvwattsYields, y2 \in PvwattsYields}

\* (tilt, shading): the ideal array, half shaded, and the extremes of both
\* factors (tilt_factor 0.5, shading_factor 0)
Ideal == [tilt |-> 30, shading |-> Zero]

TiltShading ==
    {Ideal, [tilt |-> 30, shading |-> Q(50, 1)], [tilt |-> 90, shading |-> Q(100, 1)]}

RoofAreas == {Zero, Q(50, 1)}

\* (acres, MW/km2, capacity factor); 0 acres = no land given, 247.105 acres
\* = 1 km2, so that the km2 figure is a short decimal
WindSites ==
    {[wind_acres |-> Zero, wind_density |-> Q(425, 100), wind_cf |-> Q(40, 100)],
     [wind_acres |-> Q(247105, 1000), wind_density |-> Q(425, 100),
      wind_cf |-> Q(40, 100)],
     [wind_acres |-> Q(247105, 1000), wind_density |-> Q(425, 100),
      wind_cf |-> Zero]}

TargetLoadPcts == {Q(80, 1), Q(100, 1)}

\* the generation page as it opens: sidebar and widget defaults, no lat/lon
DefaultArgs ==
    [op |-> "_rank_options", category |-> "Individual", annual |-> Q(10000, 1),
     rate |-> Q(18, 100), grid |-> Q(38, 100),
     pv_rooftop_cost_kw |-> Q(1800, 1), pv_ground_cost_kw |-> Q(1500, 1),
     wind_cost_kw |-> Q(1500, 1), green_premium |-> Q(1, 100),
     cs_discount |-> Q(10, 100),
     latlon |-> FALSE, key |-> FALSE, yield1 |-> NoneVal, yield2 |-> NoneVal,
     tilt |-> 27, shading |-> Q(8, 1), roof |-> Zero,
     wind_acres |-> Zero, wind_density |-> Q(425, 100), wind_cf |-> Q(40, 100),
     goal |-> "Balanced", target |-> Q(80, 1)]

\* d with the fields of r replaced
With(d, r) == [f \in DOMAIN d |-> IF f \in DOMAIN r THEN r[f] ELSE d[f]]

\* the calls of _rank_options explored: the page as it opens, for each goal;
\* the defaults varied along
\*   the goal, the load and the target, for an individual;
\*   who plans, how much load, and what PVWatts answers;
\*   who plans, the economics, the goal, the target and the wind site;
\*   who plans, how much load, the array's tilt / shading and the roof area;
\*   a target of 0 % (nothing to cover) for two planners and every wind site.
RankArgs ==
    {With(DefaultArgs, [goal |-> g]) : g \in Goals}
    \cup
    {With(DefaultArgs, [goal |-> g, annual |-> n, target |-> t]) :
        g \in GoalStrings, n \in AnnualLoads, t \in TargetLoadPcts}
    \cup
    {With(With(With(DefaultArgs, Ideal), env), [category |-> c, annual |-> n]) :
        c \in CATEGORY_LABELS, n \in AnnualLoads, env \in PvEnvs}
    \cup
    {With(With(With(With(DefaultArgs, Ideal), e), w),
          [category |-> c, goal |-> g, target |-> t]) :
        c \in CATEGORY_LABELS, e \in Economics, w \in WindSites, g \in Goals,
        t \in TargetLoadPcts}
    \cup
    {With(With(DefaultArgs, ts), [category |-> c, annual |-> n, roof |-> r, target |-> t]) :
        c \in CATEGORY_LABELS, n \in AnnualLoads, ts \in TiltShading,
        r \in RoofAreas, t \in TargetLoadPcts}
    \cup
    {With(With(With(DefaultArgs, Ideal), w), [category |-> c, target |-> Zero]) :
        c \in {"Individual", "City"}, w \in WindSites}

\* scenarios handed to Recommender.score_options: load, building type,
\* tariff (free, the default, twice the default; and one dearer than gasoline
\* per mile) and grid intensity (clean, the default, and two dirtier than
\* gasoline per mile)
ScoreRates == {Zero, Q(18, 100), Q(36, 100)}

DearRate == Q(60, 100)

DirtyGrids == {Q(120, 100), Q(2, 1)}

ScoreGrids == {Zero, Q(38, 100)} \cup DirtyGrids

BuildingTypes == {"residential", "commercial"}

ScoreArgs ==
    {[op |-> "score_options", annual |-> n, rate |-> r, grid |-> g,
      building_type |-> b] :
        n \in AnnualLoads, r \in ScoreRates, g \in ScoreGrids, b \in BuildingTypes}
    \cup
    {[op |-> "score_options", annual |-> n, rate |-> DearRate, grid |-> g,
      building_type |-> b] :
        n \in AnnualLoads, g \in {Zero} \cup DirtyGrids, b \in BuildingTypes}

\* the four sliders of a page, as the float vector raw_vec
SliderSettings ==
    {<<Q(a, 1), Q(b, 1), Q(c, 1), Q(d, 1)>> :
        a \in 0..SliderMax, b \in 0..SliderMax, c \in 0..SliderMax, d \in 0..SliderMax}

NoArgs == [op |-> "none"]

-----------------------------------------------------------------------------
(* Handlers.                                                               *)

\* _rank_options(category, scen, tilt, shading, roof_area_m2, ...); the
\* generated rows and the scored table are each computed once and then bound
RankOptions ==
    /\ pc = "idle"
    /\ \E a \in RankArgs :
          \E g \in {OptionRows(a)} :
             \E t \in {RankTable(g.rows, a.goal)} :
                /\ \E order \in SortDescending([i \in DOMAIN t |-> t[i].Score_0to1]) :
                      df' = Reorder(t, order)
                /\ rows' = g.rows
                /\ weights' = GoalWeights(a.goal)
                /\ pvwatts_used_any' = g.pvwatts_used_any
                /\ pvwatts_last_error' = g.pvwatts_last_error
                /\ nrel' = [api_key |-> a.latlon /\ a.key,
                            last_error |-> IF g.pvwatts_last_error = "PVWatts error"
                                           THEN "PVWatts error" ELSE "None",
                            requests |-> [i \in 1..g.pvwatts_calls |-> "pvwatts"]]
                /\ args' = a
    /\ pc' = "_rank_options"
    /\ UNCHANGED <<tou, eia, ret, session>>

\* Recommender.score_options(scen)
ScoreOptions ==
    /\ pc = "idle"
    /\ \E a \in ScoreArgs :
          \E rws \in {ScoreRows(a)} :
             \E t \in {ScoreTable(rws)} :
                /\ \E order \in SortDescending([i \in DOMAIN t |-> t[i].MCDA_Score_0to1]) :
                      df' = Reorder(t, order)
                /\ rows' = rws
                /\ weights' = McdaWeights
                /\ args' = a
    /\ pc' = "score_options"
    /\ UNCHANGED <<pvwatts_used_any, pvwatts_last_error, session>>
    /\ UNCHANGED <<services, session>>

\* page_transition_transport, from the four sliders to `weights`
TransportWeights ==
    /\ pc = "idle"
    /\ \E raw_vec \in SliderSettings :
          /\ weights' = SliderWeights(raw_vec, TransportDefaultWeights)
          /\ args' = [op |-> "page_transition_transport", raw_vec |-> raw_vec]
    /\ pc' = "page_transition_transport"
    /\ UNCHANGED <<rows, df, pvwatts_used_any, pvwatts_last_error, session>>
    /\ UNCHANGED <<services, session>>

\* page_home_utilities, from the four sliders to `weights`
HomeWeights ==
    /\ pc = "idle"
    /\ \E raw_vec \in SliderSettings :
          /\ weights' = SliderWeights(raw_vec, HomeDefaultWeights)
          /\ args' = [op |-> "page_home_utilities", raw_vec |-> raw_vec]
    /\ pc' = "page_home_utilities"
    /\ UNCHANGED <<rows, df, pvwatts_used_any, pvwatts_last_error, session>>
    /\ UNCHANGED <<services, session>>

-----------------------------------------------------------------------------
(* tools.py: ev_tou_cost, one action per pass of its while loop.           *)

\* h % 24 for a float h >= 0
Mod24(h) == Q(h.n % (24 * h.d), h.d)

\* the `if` of the for loop: block i covers hour h
InBlock(h, blk) == FLe(Q(blk.s, 1), Mod24(h)) /\ FLt(Mod24(h), Q(blk.e, 1))

\* the blocks the for loop would accept at hour h, by position in the list
Matching(h, tariff_blocks) ==
    {i \in DOMAIN tariff_blocks : InBlock(h, tariff_blocks[i])}

\* the for loop breaks at the first block that matches
FirstMatch(h, tariff_blocks) ==
    CHOOSE i \in Matching(h, tariff_blocks) :
        \A j \in Matching(h, tariff_blocks) : i <= j

step_h == Q(1, 4)

\* `while remaining > 1e-9`
Epsilon == Q(1, 1000000000)

\* the locals after lines 57-61
EvEntry(a) ==
    [cost |-> Zero,
     h |-> Q(a.start_hour, 1),
     remaining |-> FDiv(a.kwh_needed, PyMax(a.charger_kw, Epsilon))]

\* a pass that draws energy whether or not a block covers the hour
EvPassAlwaysDraws(loc, a) ==
    LET use == PyMin(step_h, loc.remaining)
        price == IF Matching(loc.h, a.tariff_blocks) = {} THEN Zero
                 ELSE a.tariff_blocks[FirstMatch(loc.h, a.tariff_blocks)].price
    IN  [cost |-> FAdd(loc.cost, FMul(FMul(price, a.charger_kw), use)),
         h |-> FAdd(loc.h, step_h),
         remaining |-> FSub(loc.remaining, use)]

\* a pass that always charges a whole step
EvPassWholeStep(loc, a) ==
    IF Matching(loc.h, a.tariff_blocks) = {}
    THEN [loc EXCEPT !.h = FAdd(loc.h, step_h)]
    ELSE LET price == a.tariff_blocks[FirstMatch(loc.h, a.tariff_blocks)].price
         IN  [cost |-> FAdd(loc.cost, FMul(FMul(price, a.charger_kw), step_h)),
              h |-> FAdd(loc.h, step_h),
              remaining |-> FSub(loc.remaining, step_h)]

\* a pass that waits at an uncovered hour instead of moving the clock on
EvPassWaits(loc, a) ==
    IF Matching(loc.h, a.tariff_blocks) = {}
    THEN loc
    ELSE LET price == a.tariff_blocks[FirstMatch(loc.h, a.tariff_blocks)].price
             use == PyMin(step_h, loc.remaining)
         IN  [cost |-> FAdd(loc.cost, FMul(FMul(price, a.charger_kw), use)),
              h |-> FAdd(loc.h, step_h),
              remaining |-> FSub(loc.remaining, use)]

\* one pass of the while body
EvPass(loc, a) ==
    IF Matching(loc.h, a.tariff_blocks) = {}
    THEN [loc EXCEPT !.h = FAdd(loc.h, step_h)]
    ELSE LET price == a.tariff_blocks[FirstMatch(loc.h, a.tariff_blocks)].price
             use == PyMin(step_h, loc.remaining)
         IN  [cost |-> FAdd(loc.cost, FMul(FMul(price, a.charger_kw), use)),
              h |-> FAdd(loc.h, step_h),
              remaining |-> FSub(loc.remaining, use)]

Block(s, e, price) == [s |-> s, e |-> e, price |-> price]

\* a plausible slip: the morning block runs an hour into the day block
planA_Overlap ==
    << Block(7, 12, Q(14, 100)), Block(11, 19, Q(25, 100)),
       Block(19, 24, Q(14, 100)), Block(0, 7, Q(14, 100)) >>

\* page_transition_transport, EV tab
planA ==
    << Block(7, 11, Q(14, 100)), Block(11, 19, Q(25, 100)),
       Block(19, 24, Q(14, 100)), Block(0, 7, Q(14, 100)) >>

planB ==
    << Block(23, 24, Q(14, 100)), Block(0, 7, Q(14, 100)),
       Block(7, 15, Q(18, 100)), Block(15, 19, Q(26, 100)),
       Block(19, 23, Q(18, 100)) >>

\* a tariff for the night hours only
NightOnly == << Block(19, 24, Q(14, 100)), Block(0, 7, Q(14, 100)) >>

\* the calls explored: four session sizes, five start hours, the charger
\* powers of the page, and as tariff the two plans, the night-only tariff,
\* overlapping blocks, and no block at all
EvArgs ==
    {[op |-> "ev_tou_cost", kwh_needed |-> k, start_hour |-> s0,
      charger_kw |-> c, tariff_blocks |-> t] :
        k \in {Zero, Q(1, 2), Q(7, 1), Q(30, 1)},
        s0 \in {0, 6, 8, 22, 23},
        c \in {One, Q(33, 10), Q(7, 1), Q(11, 1)},
        t \in {planA, planB, NightOnly,
               << Block(0, 24, Q(20, 100)), Block(22, 24, Q(10, 100)) >>,
               <<>>}}

\* hours of clock time a call may run in the model
MaxEvHours == 72

NoLocals == [cost |-> Zero, h |-> Zero, remaining |-> Zero]

\* ev_tou_cost is called: lines 57-61
EvCall ==
    /\ pc = "idle"
    /\ \E a \in EvArgs :
          /\ args' = a
          /\ tou' = EvEntry(a)
    /\ pc' = "ev_tou_cost"
    /\ UNCHANGED <<engine, eia, nrel, ret, session>>

\* calls at the edges of the signature: sessions of no, negative or hardly
\* any energy, and tariffs of one block: an overnight block written (22, 6),
\* a single hour, or nothing
EvEdgeArgs ==
    {[op |-> "ev_tou_cost", kwh_needed |-> k, start_hour |-> s0,
      charger_kw |-> c, tariff_blocks |-> t] :
        k \in {Q(-5, 1), Zero, Q(1, 100000000), Q(1, 2), Q(7, 1)},
        s0 \in {0, 13, 22},
        c \in {Q(7, 1), Q(11, 1)},
        t \in {<< Block(22, 6, Q(14, 100)) >>, << Block(12, 13, Q(20, 100)) >>, <<>>}}

EvEdgeCall ==
    /\ pc = "idle"
    /\ \E a \in EvEdgeArgs :
          /\ args' = a
          /\ tou' = EvEntry(a)
    /\ pc' = "ev_tou_cost"
    /\ UNCHANGED <<engine, eia, nrel, ret, session>>

\* the calls of the EV tab: every start hour and charger power of its
\* widgets, sessions of 0, 7 and 30 kWh, and each plan with its blocks in the
\* order of the page, reversed, and by hour of day
EvTabArgs ==
    {[op |-> "ev_tou_cost", kwh_needed |-> k, start_hour |-> s0,
      charger_kw |-> c, tariff_blocks |-> t] :
        k \in {Zero, Q(7, 1), Q(30, 1)},
        s0 \in 0..23,
        c \in {One, Q(33, 10), Q(7, 1), Q(11, 1)},
        t \in {planA, Reorder(planA, <<4, 3, 2, 1>>), Reorder(planA, <<4, 1, 2, 3>>),
               planB, Reorder(planB, <<5, 4, 3, 2, 1>>),
               Reorder(planB, <<2, 3, 4, 5, 1>>)}}

EvTabCall ==
    /\ pc = "idle"
    /\ \E a \in EvTabArgs :
          /\ args' = a
          /\ tou' = EvEntry(a)
    /\ pc' = "ev_tou_cost"
    /\ UNCHANGED <<engine, eia, nrel, ret, session>>

\* the while condition holds: one pass of the body
EvLoop ==
    /\ pc = "ev_tou_cost"
    /\ FLt(Epsilon, tou.remaining)
    /\ FLt(tou.h, Q(args.start_hour + MaxEvHours, 1))
    /\ tou' = EvPass(tou, args)
    /\ UNCHANGED <<pc, engine, args, eia, nrel, ret, session>>

\* the while condition fails: return cost
EvReturn ==
    /\ pc = "ev_tou_cost"
    /\ ~FLt(Epsilon, tou.remaining)
    /\ ret' = tou.cost
    /\ pc' = "ev_done"
    /\ UNCHANGED <<engine, args, tou, eia, nrel, session>>

-----------------------------------------------------------------------------
(* eia_client.py and nrel_client.py.  A client is its fields plus the log  *)
(* of the HTTP requests it has sent; a response is what requests.get gives *)
(* back: status 0 stands for an exception (network error, timeout), json   *)
(* for a body that parses, and the remaining fields for the parsed body.   *)

\* EIA.__init__ and NRELClient.__init__
NewEIA == [api_key |-> FALSE, last_error |-> "None", last_url |-> "None",
           requests |-> <<>>]

NewNREL == [api_key |-> FALSE, last_error |-> "None", requests |-> <<>>]

\* a cell of a payload that is not a number, such as 'Not Available'
Text == [k |-> "text", n |-> 0, d |-> 0]

DataFrame(rws) == [k |-> "df", rows |-> rws]

\* an exception that leaves the method
Raise(exc) == [k |-> "raise", exc |-> exc]

\* f"{self.base_v2}/{path}": the retail-sales data set for facet "price",
\* the total-energy data set for an MSN
base_v2(facet) ==
    IF facet = "price"
    THEN "https://api.eia.gov/v2/electricity/retail-sales/data"
    ELSE "https://api.eia.gov/v2/total-energy/data"

\* a plausible slip: the payload is handed on without the no-records test
get_v2_Unchecked(c, facet, r) ==
    IF ~c.api_key
    THEN [ret |-> NoneVal,
          c |-> [c EXCEPT !.last_error = "No EIA_API_KEY configured",
                          !.last_url = "None"]]
    ELSE LET sent == [c EXCEPT !.last_url = base_v2(facet),
                               !.requests = Append(@, facet)]
             fail(msg) == [ret |-> NoneVal, c |-> [sent EXCEPT !.last_error = msg]]
         IN  IF r.status = 0 THEN fail("Exception calling EIA v2")
             ELSE IF r.status = 403 THEN fail("EIA returned 403 Forbidden")
             ELSE IF r.status >= 400 \/ ~r.json THEN fail("Exception calling EIA v2")
             ELSE [ret |-> [k |-> "data", rows |-> r.data],
                   c |-> [sent EXCEPT !.last_error = "None"]]

\* EIA._get_v2(path, params); facet names what is asked for
get_v2(c, facet, r) ==
    IF ~c.api_key
    THEN [ret |-> NoneVal,
          c |-> [c EXCEPT !.last_error = "No EIA_API_KEY configured",
                          !.last_url = "None"]]
    ELSE LET sent == [c EXCEPT !.last_url = base_v2(facet),
                               !.requests = Append(@, facet)]
             fail(msg) == [ret |-> NoneVal, c |-> [sent EXCEPT !.last_error = msg]]
         IN  IF r.status = 0 THEN fail("Exception calling EIA v2")
             ELSE IF r.status = 403 THEN fail("EIA returned 403 Forbidden")
             ELSE IF r.status >= 400 \/ ~r.json THEN fail("Exception calling EIA v2")
             ELSE IF r.total = 0 \/ r.data = <<>>
                  THEN fail("No records returned from EIA for this selection.")
             ELSE [ret |-> [k |-> "data", rows |-> r.data],
                   c |-> [sent EXCEPT !.last_error = "None"]]

\* EIA.fetch_retail_price(year, state, sector)
fetch_retail_price(c, r) ==
    LET raw == get_v2(c, "price", r)
    IN  IF raw.ret.k = "none" THEN raw
        ELSE IF \E i \in DOMAIN raw.ret.rows : raw.ret.rows[i].value.k = "text"
             THEN [ret |-> Raise("ValueError"), c |-> raw.c]
        ELSE [ret |-> DataFrame([i \in DOMAIN raw.ret.rows |->
                         [period |-> raw.ret.rows[i].period,
                          price |-> raw.ret.rows[i].value,
                          price_cents_per_kwh |-> raw.ret.rows[i].value,
                          price_usd_per_kwh |->
                              FDiv(raw.ret.rows[i].value, Q(100, 1))]]),
              c |-> raw.c]

\* EIA.fetch_total_energy_series(msn, ..., frequency)
fetch_total_energy_series(c, msn, frequency, r) ==
    IF frequency \notin {"annual", "monthly"}
    THEN [ret |-> NoneVal, c |-> [c EXCEPT !.last_error = "Unsupported frequency"]]
    ELSE LET raw == get_v2(c, msn, r)
             numeric == [i \in DOMAIN raw.ret.rows |->
                            IF raw.ret.rows[i].value.k = "num"
                            THEN raw.ret.rows[i].value ELSE NaN]
             kept == SelectSeq([i \in DOMAIN raw.ret.rows |->
                                   [period |-> raw.ret.rows[i].period,
                                    value |-> numeric[i]]],
                               LAMBDA row : ~IsNaN(row.value))
         IN  IF raw.ret.k = "none" THEN raw
             ELSE [ret |-> DataFrame(kept), c |-> raw.c]

\* a plausible slip: the loop gives up at the first MSN without data
RECURSIVE MultiFramesAbort(_, _, _, _, _)
MultiFramesAbort(c, msns, frequency, rs, frames) ==
    IF msns = <<>> THEN [frames |-> frames, c |-> c]
    ELSE LET f == fetch_total_energy_series(c, Head(msns), frequency, Head(rs))
         IN  IF f.ret.k # "df" \/ f.ret.rows = <<>>
             THEN [frames |-> frames, c |-> f.c]
             ELSE MultiFramesAbort(f.c, Tail(msns), frequency, Tail(rs),
                      frames \o [i \in DOMAIN f.ret.rows |->
                                    [msn |-> Head(msns),
                                     period |-> f.ret.rows[i].period,
                                     value |-> f.ret.rows[i].value]])

\* the for loop of fetch_total_energy_multi: rs[i] answers the i-th request
RECURSIVE MultiFrames(_, _, _, _, _)
MultiFrames(c, msns, frequency, rs, frames) ==
    IF msns = <<>> THEN [frames |-> frames, c |-> c]
    ELSE LET f == fetch_total_energy_series(c, Head(msns), frequency, Head(rs))
             tagged == IF f.ret.k = "df"
                       THEN [i \in DOMAIN f.ret.rows |->
                                [msn |-> Head(msns),
                                 period |-> f.ret.rows[i].period,
                                 value |-> f.ret.rows[i].value]]
                       ELSE <<>>
         IN  MultiFrames(f.c, Tail(msns), frequency, Tail(rs), frames \o tagged)

\* EIA.fetch_total_energy_multi(msns, ..., frequency)
fetch_total_energy_multi(c, msns, frequency, rs) ==
    IF msns = <<>>
    THEN [ret |-> NoneVal, c |-> [c EXCEPT !.last_error = "No MSN codes provided."]]
    ELSE LET m == MultiFrames(c, msns, frequency, rs, <<>>)
         IN  IF m.frames = <<>>
             THEN [ret |-> NoneVal,
                   c |-> [m.c EXCEPT !.last_error = "No data returned from EIA"]]
             ELSE [ret |-> DataFrame(m.frames), c |-> m.c]

\* EIA.fetch_series(year, state, fuel, series, ...)
fetch_series(c, fuel, series, r) ==
    IF fuel = "electricity" /\ series = "price"
    THEN fetch_retail_price(c, r)
    ELSE [ret |-> NoneVal,
          c |-> [c EXCEPT !.last_error = "fetch_series is only implemented for"]]

\* EIA.fetch_state_price(year, state, sector)
fetch_state_price(c, r) == fetch_retail_price(c, r)

\* EIA.fuel_presets(): label -> MSN
fuel_presets ==
    [label \in {"Total energy (all fuels)", "Petroleum consumption",
                "Coal consumption", "Natural gas consumption",
                "Electricity net generation"} |->
        CASE label = "Total energy (all fuels)" -> "TETGRUS"
          [] label = "Petroleum consumption" -> "TETPRUS"
          [] label = "Coal consumption" -> "TETCOUS"
          [] label = "Natural gas consumption" -> "TETNGUS"
          [] OTHER -> "TETENUS"]

\* EIA.fetch_fuel_timeseries(fuel_label, ...)
fetch_fuel_timeseries(c, fuel_label, r) ==
    IF fuel_label \notin DOMAIN fuel_presets
    THEN [ret |-> NoneVal, c |-> [c EXCEPT !.last_error = "Unknown fuel label"]]
    ELSE fetch_total_energy_series(c, fuel_presets[fuel_label], "annual", r)

\* NRELClient.pvwatts_ac_annual (full = FALSE) and NRELClient.pvwatts_full
\* (full = TRUE); the two differ in what they take from the payload
pvwatts(c, full, r) ==
    IF ~c.api_key
    THEN [ret |-> NoneVal, c |-> [c EXCEPT !.last_error = "No NREL_API_KEY found"]]
    ELSE LET sent == [c EXCEPT !.requests = Append(@, "pvwatts")]
             fail(msg) == [ret |-> NoneVal, c |-> [sent EXCEPT !.last_error = msg]]
             ok(v) == [ret |-> v, c |-> [sent EXCEPT !.last_error = "None"]]
         IN  IF r.status = 0 \/ r.status >= 400 \/ ~r.json
             THEN fail("Exception calling PVWatts")
             ELSE IF r.errors THEN fail("errors")
             ELSE IF full
                  THEN IF r.outputs = "present"
                       THEN ok([k |-> "outputs", ac_annual |-> r.ac_annual])
                       ELSE fail("PVWatts response missing 'outputs'.")
             ELSE IF r.outputs = "missing" \/ r.outputs = "empty"
                     \/ r.ac_annual.k = "none"
                  THEN fail("PVWatts response missing 'outputs.ac_annual'.")
             ELSE IF r.ac_annual.k = "text" THEN fail("Exception calling PVWatts")
             ELSE ok(r.ac_annual)

EiaRows ==
    {<<>>,
     << [period |-> "2023", value |-> Q(935, 10)],
        [period |-> "2024", value |-> Q(94, 1)] >>,
     << [period |-> "2023", value |-> Q(935, 10)],
        [period |-> "2024", value |-> Text] >>,
     << [period |-> "2024", value |-> Text] >>}

EiaResponses ==
    {[status |-> st, json |-> FALSE, total |-> 0, data |-> <<>>] :
        st \in {0, 200, 403, 404, 500}}
    \cup {[status |-> 200, json |-> TRUE, total |-> Len(d) * t, data |-> d] :
            d \in EiaRows, t \in {0, 1}}
    \cup {[status |-> 200, json |-> TRUE, total |-> 2, data |-> <<>>]}

NrelResponses ==
    {[status |-> st, json |-> FALSE, errors |-> FALSE, outputs |-> "missing",
      ac_annual |-> NoneVal] : st \in {0, 200, 403, 500}}
    \cup {[status |-> 200, json |-> TRUE, errors |-> e, outputs |-> o,
           ac_annual |-> IF o = "present" THEN v ELSE NoneVal] :
            e \in BOOLEAN, o \in {"missing", "empty", "present"},
            v \in {NoneVal, Text, Q(9100, 1)}}

Msns == {"TETCBUS", "TERCBUS", "TECCBUS"}

\* client.fetch_retail_price(...)
FetchRetailPrice ==
    /\ pc = "idle"
    /\ \E key \in BOOLEAN, r \in EiaResponses :
          \E f \in {fetch_retail_price([NewEIA EXCEPT !.api_key = key], r)} :
             /\ ret' = f.ret
             /\ eia' = f.c
             /\ args' = [op |-> "fetch_retail_price", rs |-> <<r>>]
    /\ pc' = "fetch_retail_price"
    /\ UNCHANGED <<engine, tou, nrel, session>>

\* client.fetch_total_energy_series(msn, ..., frequency)
FetchTotalEnergySeries ==
    /\ pc = "idle"
    /\ \E key \in BOOLEAN, r \in EiaResponses, msn \in Msns,
          frequency \in {"annual", "monthly", "weekly"} :
          \E f \in {fetch_total_energy_series([NewEIA EXCEPT !.api_key = key],
                                              msn, frequency, r)} :
             /\ ret' = f.ret
             /\ eia' = f.c
             /\ args' = [op |-> "fetch_total_energy_series", msns |-> <<msn>>,
                         frequency |-> frequency, rs |-> <<r>>]
    /\ pc' = "fetch_total_energy_series"
    /\ UNCHANGED <<engine, tou, nrel, session>>

\* nrel.pvwatts_ac_annual(...) and nrel.pvwatts_full(...)
PvwattsLookup(full) ==
    /\ pc = "idle"
    /\ \E key \in BOOLEAN, r \in NrelResponses :
          \E f \in {pvwatts([NewNREL EXCEPT !.api_key = key], full, r)} :
             /\ ret' = f.ret
             /\ nrel' = f.c
             /\ args' = [op |-> "pvwatts", rs |-> <<r>>]
    /\ pc' = IF full THEN "pvwatts_full" ELSE "pvwatts_ac_annual"
    /\ UNCHANGED <<engine, tou, eia, session>>

\* the answers offered to the requests of one fetch_total_energy_multi call
MultiAnswers ==
    {r \in EiaResponses :
        \/ r.status \in {0, 403}
        \/ r.status = 200 /\ r.json /\ r.total = Len(r.data)}

MsnLists ==
    {<<>>} \cup {<<m>> : m \in Msns}
    \cup {<<m1, m2>> : m1 \in Msns, m2 \in Msns \ {"TECCBUS"}}

\* client.fetch_total_energy_multi(msns, ..., frequency)
FetchTotalEnergyMulti ==
    /\ pc = "idle"
    /\ \E key \in BOOLEAN, msns \in MsnLists, frequency \in {"annual", "weekly"} :
          \E rs \in [DOMAIN msns -> MultiAnswers] :
             \E f \in {fetch_total_energy_multi([NewEIA EXCEPT !.api_key = key],
                                                msns, frequency, rs)} :
                /\ ret' = f.ret
                /\ eia' = f.c
                /\ args' = [op |-> "fetch_total_energy_multi", msns |-> msns,
                            frequency |-> frequency, rs |-> rs]
    /\ pc' = "fetch_total_energy_multi"
    /\ UNCHANGED <<engine, tou, nrel, session>>

\* the public calls made on a client that is kept
EiaCalls ==
    [op : {"fetch_retail_price", "fetch_state_price"}]
    \cup [op : {"fetch_series"}, fuel : {"electricity", "gas"}, series : {"price"}]
    \cup [op : {"fetch_total_energy_series"}, msns : {<<"TETCBUS">>},
           frequency : {"annual", "weekly"}]
    \cup [op : {"fetch_total_energy_multi"},
           msns : {<<>>, <<"TETCBUS">>, <<"TETCBUS", "TERCBUS">>},
           frequency : {"annual"}]
    \cup [op : {"fetch_fuel_timeseries"}, fuel_label : {"Coal consumption", "Wood"}]

\* what the server answers to them: an exception, no records, two records
EiaAnswers ==
    {r \in EiaResponses :
        \/ r.status = 0
        \/ r.status = 200 /\ r.json /\ r.total = Len(r.data)
              /\ \A i \in DOMAIN r.data : r.data[i].value.k = "num"}

\* calls a client may receive in the model
MaxEiaCalls == 2

\* the method m of client c, its requests answered by rs
EiaMethod(c, m, rs) ==
    CASE m.op = "fetch_retail_price" -> fetch_retail_price(c, rs[1])
      [] m.op = "fetch_state_price" -> fetch_state_price(c, rs[1])
      [] m.op = "fetch_series" -> fetch_series(c, m.fuel, m.series, rs[1])
      [] m.op = "fetch_total_energy_series" ->
            fetch_total_energy_series(c, m.msns[1], m.frequency, rs[1])
      [] m.op = "fetch_total_energy_multi" ->
            fetch_total_energy_multi(c, m.msns, m.frequency, rs)
      [] OTHER -> fetch_fuel_timeseries(c, m.fuel_label, rs[1])

\* a public method is called on the client: on a client just constructed,
\* with or without a key, or on the client of the call before
EiaCall ==
    /\ \/ pc = "idle"
       \/ pc = "eia_call" /\ args.call_no < MaxEiaCalls
    /\ \E key \in BOOLEAN, m \in EiaCalls :
          \E c \in {IF pc = "idle" THEN [NewEIA EXCEPT !.api_key = key] ELSE eia} :
             \E rs \in [1..(IF m.op = "fetch_total_energy_multi" /\ Len(m.msns) = 2
                             THEN 2 ELSE 1) -> EiaAnswers] :
                \E f \in {EiaMethod(c, m, rs)} :
                   /\ ret' = f.ret
                   /\ eia' = f.c
                   /\ args' = [op |-> m.op, m |-> m, rs |-> rs,
                               call_no |-> IF pc = "idle" THEN 1 ELSE args.call_no + 1,
                               requests_before |-> Len(c.requests)]
    /\ pc' = "eia_call"
    /\ UNCHANGED <<engine, tou, nrel, session>>

PvwattsAcAnnualCall == PvwattsLookup(FALSE)

PvwattsFullCall == PvwattsLookup(TRUE)

-----------------------------------------------------------------------------
(* tools.py formulas as the two calculator pages use them.  A Python float *)
(* division raises ZeroDivisionError when the divisor is 0; a raised       *)
(* exception passes through the arithmetic that follows it.                *)

PyDiv(a, b) ==
    IF a.k = "raise" THEN a
    ELSE IF b.n = 0 THEN Raise("ZeroDivisionError")
    ELSE FDiv(a, b)

\* a plausible slip: the divisor is not parenthesised
pv_area_for_avg_power_NoParens(p_avg_kw, eta, G_year_kwh_m2_day) ==
    LET q == PyDiv(FMul(p_avg_kw, Q(24, 1)), eta)
    IN  IF q.k = "raise" THEN q ELSE FMul(q, G_year_kwh_m2_day)

pv_area_for_avg_power(p_avg_kw, eta, G_year_kwh_m2_day) ==
    PyDiv(FMul(p_avg_kw, Q(24, 1)), FMul(eta, G_year_kwh_m2_day))

capacity_factor(monthly_kwh, ac_kw, days_in_month) ==
    PyDiv(monthly_kwh, FMul(FMul(ac_kw, Q(24, 1)), Q(days_in_month, 1)))

panel_efficiency(p_w, area_m2) == PyDiv(p_w, FMul(Q(1000, 1), area_m2))

carbon_intensity_from_fc_hhv(fc_mass_frac, HHV_MJ_per_kg) ==
    PyDiv(FMul(fc_mass_frac, Q(44, 12)), HHV_MJ_per_kg)

\* x * 1e6 / HHV is computed as x / (HHV / 1e6): the same value, the same
\* ZeroDivisionError, and no intermediate product beyond 32 bits
biomass_poplar_land_for_power(net_eff, cf, plant_mw, HHV_kJ_per_kg, yield_Mg_per_ha_yr) ==
    LET annual_elec_MJ ==
            FMul(FMul(FMul(FMul(plant_mw, Q(1000000, 1)), Q(8760, 1)), cf), Q(36, 10))
        biomass_MJ_needed == PyDiv(annual_elec_MJ, net_eff)
        kg_needed == PyDiv(biomass_MJ_needed, FDiv(HHV_kJ_per_kg, Q(1000000, 1)))
    IN  PyDiv(PyDiv(kg_needed, Q(1000, 1)), yield_Mg_per_ha_yr)

trucks_per_day(kg_per_year, kg_per_truck) ==
    PyDiv(PyDiv(kg_per_year, kg_per_truck), Q(365, 1))

\* the first exception among the values computed in page order, else the
\* values shown
Shown(values) ==
    IF \E i \in DOMAIN values : values[i].k = "raise"
    THEN values[CHOOSE i \in DOMAIN values :
                    /\ values[i].k = "raise"
                    /\ \A j \in 1..(i - 1) : values[j].k # "raise"]
    ELSE [k |-> "page", shown |-> values]

\* kg_year of the biomass tab of page_pv_tools; x * 1e6 / HHV is computed
\* as x / (HHV / 1e6), as in biomass_poplar_land_for_power
pv_tools_kg_year(w) ==
    PyDiv(PyDiv(FMul(FMul(FMul(FMul(w.plant_mw, Q(1000000, 1)), Q(8760, 1)), w.cf),
                     Q(36, 10)),
                w.net_eff),
          FDiv(w.HHV_kJkg, Q(1000000, 1)))

\* page_pv_tools: the PV area, capacity factor, panel efficiency and biomass
\* tabs, each computed on every run; the biomass tab shows the area and the
\* truckloads per day
page_pv_tools(w) ==
    Shown(<< pv_area_for_avg_power(FMul(w.pavg_mw, Q(1000, 1)), w.eta, w.G_year),
             capacity_factor(w.monthly_kwh, w.ac_kw, w.days),
             panel_efficiency(w.p, w.area),
             biomass_poplar_land_for_power(w.net_eff, w.cf, w.plant_mw, w.HHV_kJkg,
                                           w.yield_Mg_ha_yr),
             trucks_per_day(pv_tools_kg_year(w), Q(18000, 1)) >>)

Info == [k |-> "info", n |-> 0, d |-> 0]

\* try: ... except Exception as e: st.error(...)
Try(v) == IF v.k = "raise" THEN [k |-> "error", n |-> 0, d |-> 0] ELSE v

\* kg_year of section A8 of page_energy_calculations
calculations_kg_year(w) ==
    PyDiv(PyDiv(FMul(FMul(FMul(FMul(w.plant_mw, Q(1000000, 1)), Q(8760, 1)), w.cf),
                     Q(36, 10)),
                w.net_eff),
          w.HHV_kJkg)

\* page_energy_calculations: the same formulas and the carbon intensity;
\* a blank text input is None; the truckloads of section A8 come last
page_energy_calculations(w) ==
    Shown(<< IF w.pavg_mw.k # "none" /\ w.eta.k # "none" /\ w.G_year.k # "none"
             THEN Try(pv_area_for_avg_power(FMul(w.pavg_mw, Q(1000, 1)), w.eta, w.G_year))
             ELSE Info,
             IF w.p.k # "none" /\ w.area.k # "none" /\ ~FEq(w.area, Zero)
             THEN Try(panel_efficiency(w.p, w.area))
             ELSE Info,
             IF w.monthly_kwh.k # "none" /\ w.ac_kw.k # "none"
             THEN Try(capacity_factor(w.monthly_kwh, w.ac_kw, w.days))
             ELSE Info,
             IF FLt(Zero, w.plant_mw) /\ FLt(Zero, w.cf) /\ FLt(Zero, w.net_eff)
                /\ FLt(Zero, w.HHV_kJkg) /\ FLt(Zero, w.yield_Mg_ha_yr)
             THEN Try(biomass_poplar_land_for_power(w.net_eff, w.cf, w.plant_mw,
                                                    w.HHV_kJkg, w.yield_Mg_ha_yr))
             ELSE Info,
             IF w.fc.k # "none" /\ w.hhv.k # "none" /\ FLt(Zero, w.hhv)
             THEN Try(carbon_intensity_from_fc_hhv(w.fc, w.hhv))
             ELSE Info,
             IF FLt(Zero, w.plant_mw) /\ FLt(Zero, w.cf) /\ FLt(Zero, w.net_eff)
                /\ FLt(Zero, w.HHV_kJkg) /\ FLt(Zero, w.yield_Mg_ha_yr)
             THEN Try(trucks_per_day(calculations_kg_year(w), Q(18000, 1)))
             ELSE Info >>)

\* the widgets at their defaults; the biomass plant at round values its
\* widgets allow (1 W, CF 0.5, efficiency 0.5, 20 MJ/kg, 10 Mg/ha-yr)
DefaultWidgets ==
    [pavg_mw |-> Q(10, 1), eta |-> Q(23, 100), G_year |-> Q(42, 10),
     monthly_kwh |-> Q(1500, 1), ac_kw |-> Q(8, 1), days |-> 30,
     p |-> Q(560, 1), area |-> Q(226, 100),
     plant_mw |-> Q(1, 1000000), cf |-> Q(1, 2), net_eff |-> Q(1, 2),
     HHV_kJkg |-> Q(20000, 1), yield_Mg_ha_yr |-> Q(10, 1),
     fc |-> Q(85, 100), hhv |-> Q(45, 1)]

\* every widget that is a divisor at its default or at 0, the least value
\* the number inputs allow
NumberInputs ==
    {With(DefaultWidgets,
          [eta |-> e, ac_kw |-> a, area |-> ar, net_eff |-> ne, HHV_kJkg |-> hh,
           yield_Mg_ha_yr |-> y]) :
        e \in {Zero, DefaultWidgets.eta}, a \in {Zero, DefaultWidgets.ac_kw},
        ar \in {Zero, DefaultWidgets.area}, ne \in {Zero, DefaultWidgets.net_eff},
        hh \in {Zero, DefaultWidgets.HHV_kJkg},
        y \in {Zero, DefaultWidgets.yield_Mg_ha_yr}}

\* the text inputs of the calculations page are blank, 0 or a value
TextInputs ==
    {With(w, [eta |-> e, ac_kw |-> a, area |-> ar, hhv |-> h]) :
        w \in {x \in NumberInputs : FEq(x.eta, DefaultWidgets.eta)
                                    /\ FEq(x.ac_kw, DefaultWidgets.ac_kw)
                                    /\ FEq(x.area, DefaultWidgets.area)},
        e \in {NoneVal, Zero, DefaultWidgets.eta},
        a \in {NoneVal, Zero, DefaultWidgets.ac_kw},
        ar \in {NoneVal, Zero, DefaultWidgets.area},
        h \in {NoneVal, Zero, DefaultWidgets.hhv}}

PagePvTools ==
    /\ pc = "idle"
    /\ \E w \in NumberInputs :
          /\ ret' = page_pv_tools(w)
          /\ args' = [op |-> "page_pv_tools", w |-> w]
    /\ pc' = "page_pv_tools"
    /\ UNCHANGED <<engine, tou, eia, nrel, session>>

PageEnergyCalculations ==
    /\ pc = "idle"
    /\ \E w \in TextInputs :
          /\ ret' = page_energy_calculations(w)
          /\ args' = [op |-> "page_energy_calculations", w |-> w]
    /\ pc' = "page_energy_calculations"
    /\ UNCHANGED <<engine, tou, eia, nrel, session>>

-----------------------------------------------------------------------------
(* tools.py formulas called on their own, and called again with one        *)
(* argument changed.                                                       *)

\* a plausible slip: the parentheses around the divisor are missing
carbon_intensity_from_formula_NoSum(nC, nH, HHV_MJ_per_kg) ==
    LET mC == FMul(nC, Q(12, 1))
        mH == FMul(nH, Q(1, 1))
        fc == FAdd(PyDiv(mC, mC), mH)
    IN  carbon_intensity_from_fc_hhv(fc, HHV_MJ_per_kg)

carbon_intensity_from_formula(nC, nH, HHV_MJ_per_kg) ==
    LET mC == FMul(nC, Q(12, 1))
        mH == FMul(nH, Q(1, 1))
        fc == PyDiv(mC, FAdd(mC, mH))
    IN  carbon_intensity_from_fc_hhv(fc, HHV_MJ_per_kg)

\* average power in kW, efficiency and insolation, zero included
PvAreaArgs ==
    [op : {"pv_area_for_avg_power"},
     p_avg_kw : {Zero, Q(1, 2), One, Q(10, 1), Q(10000, 1)},
     eta : {Zero, Q(1, 10), Q(23, 100), Q(1, 2), One},
     G_year_kwh_m2_day : {Zero, Q(1, 10), Q(42, 10), Q(12, 1)}]

\* atoms of carbon and hydrogen (methane, octane, carbon, ...) and heating
\* values in MJ/kg
CarbonArgs ==
    [op : {"carbon_intensity_from_formula"},
     nC : {One, Q(2, 1), Q(8, 1), Q(16, 1)},
     nH : {Zero, Q(4, 1), Q(6, 1), Q(18, 1), Q(34, 1)},
     HHV_MJ_per_kg : {Q(1, 10), Q(328, 10), Q(45, 1), Q(555, 10), Q(142, 1)}]

PvAreaForAvgPower ==
    /\ pc = "idle"
    /\ \E a \in PvAreaArgs :
          /\ args' = a
          /\ ret' = pv_area_for_avg_power(a.p_avg_kw, a.eta, a.G_year_kwh_m2_day)
    /\ pc' = "pv_area_for_avg_power"
    /\ UNCHANGED <<engine, tou, eia, nrel, session>>

\* the same call with half the efficiency
PvAreaAtHalfEta ==
    /\ pc = "pv_area_for_avg_power"
    /\ \E a \in {With(args, [eta |-> FDiv(args.eta, Q(2, 1))])} :
          /\ args' = a
          /\ ret' = pv_area_for_avg_power(a.p_avg_kw, a.eta, a.G_year_kwh_m2_day)
    /\ pc' = "pv_area_at_half_eta"
    /\ UNCHANGED <<engine, tou, eia, nrel, session>>

CarbonIntensityFromFormula ==
    /\ pc = "idle"
    /\ \E a \in CarbonArgs :
          /\ args' = a
          /\ ret' = carbon_intensity_from_formula(a.nC, a.nH, a.HHV_MJ_per_kg)
    /\ pc' = "carbon_intensity_from_formula"
    /\ UNCHANGED <<engine, tou, eia, nrel, session>>

\* the same fuel at a higher heating value
CarbonIntensityAtHigherHHV ==
    /\ pc = "carbon_intensity_from_formula"
    /\ \E a \in {x \in CarbonArgs : /\ x.nC = args.nC
                                    /\ x.nH = args.nH
                                    /\ FLt(args.HHV_MJ_per_kg, x.HHV_MJ_per_kg)} :
          /\ args' = a
          /\ ret' = carbon_intensity_from_formula(a.nC, a.nH, a.HHV_MJ_per_kg)
    /\ pc' = "carbon_intensity_at_higher_hhv"
    /\ UNCHANGED <<engine, tou, eia, nrel, session>>

-----------------------------------------------------------------------------
(* The same step run a second time on the same input.                      *)

\* a plausible slip: ties are broken afresh on every run
SortAfresh(key, prev_key, prev_order) == SortDescending(key)

\* sort_values runs a fixed algorithm: a key column it has sorted before
\* comes out in the order it came out then
SortAgain(key, prev_key, prev_order) ==
    IF key = prev_key THEN {prev_order} ELSE SortDescending(key)

\* the page reruns _rank_options with the arguments of the table shown; ret
\* keeps the table of the first run
RankAgain ==
    /\ pc = "_rank_options"
    /\ \E g \in {OptionRows(args)} :
          \E t \in {RankTable(g.rows, args.goal)} :
             \E prev_order \in {[k \in DOMAIN df |->
                                   CHOOSE i \in DOMAIN rows :
                                       rows[i].Technology = df[k].Technology]} :
                /\ \E order \in SortAgain(
                          [i \in DOMAIN t |-> t[i].Score_0to1],
                          [i \in DOMAIN rows |->
                              df[CHOOSE k \in DOMAIN df : prev_order[k] = i].Score_0to1],
                          prev_order) :
                      df' = Reorder(t, order)
                /\ rows' = g.rows
                /\ weights' = GoalWeights(args.goal)
                /\ pvwatts_used_any' = g.pvwatts_used_any
                /\ pvwatts_last_error' = g.pvwatts_last_error
    /\ ret' = DataFrame(df)
    /\ pc' = "_rank_options_again"
    /\ UNCHANGED <<args, tou, eia, nrel, session>>

\* the page reruns score_options with the scenario of the table shown
ScoreAgain ==
    /\ pc = "score_options"
    /\ \E rws \in {ScoreRows(args)} :
          \E t \in {ScoreTable(rws)} :
             \E prev_order \in {[k \in DOMAIN df |-> df[k].idx]} :
                /\ \E order \in SortAgain(
                          [i \in DOMAIN t |-> t[i].MCDA_Score_0to1],
                          [i \in DOMAIN rows |->
                              df[CHOOSE k \in DOMAIN df : prev_order[k] = i].MCDA_Score_0to1],
                          prev_order) :
                      df' = Reorder(t, order)
                /\ rows' = rws
                /\ weights' = McdaWeights
    /\ ret' = DataFrame(df)
    /\ pc' = "score_options_again"
    /\ UNCHANGED <<pvwatts_used_any, pvwatts_last_error, args, tou, eia, nrel, session>>

-----------------------------------------------------------------------------
(* Navigation (app.py): the session store, the sidebar radio, the cards of  *)
(* the home page and the router.  st.session_state is a function from the   *)
(* keys present to their values.                                            *)

Put(s, key, value) ==
    [k \in DOMAIN s \cup {key} |-> IF k = key THEN value ELSE s[k]]

Pop(s, keys) == [k \in DOMAIN s \ keys |-> s[k]]

PAGES ==
    << <<"Home", "home">>,
       <<"Build Your Ideal Society (Game)", "ideal_society">>,
       <<"Assignment Tools", "homework">>,
       <<"Energy Calculations (Solver)", "calc">>,
       <<"Calculate Efficiency & PV", "pv_tools">>,
       <<"Conversion Factors & Units", "conversions">>,
       <<"Transition Tech: Electricity Generation", "transition_gen">>,
       <<"Transition Tech: Transportation", "transition_transport">>,
       <<"Transition Tech: Home Utilities", "home_utilities">>,
       <<"Fuel & Energy Data (EIA)", "eia">>,
       <<"Annual Energy Review", "monthly_review">>,
       <<"Carbon Sequestration", "sequestration">>,
       <<"AI, Education & Policy", "knowledge">>,
       <<"About", "about">> >>

page_labels == [i \in DOMAIN PAGES |-> PAGES[i][1]]

page_keys == [i \in DOMAIN PAGES |-> PAGES[i][2]]

\* list.index: the first position holding the value
index(list, value) ==
    CHOOSE i \in DOMAIN list :
        list[i] = value /\ \A j \in 1..(i - 1) : list[j] # value

\* the session after the first run of main: _init_state has stored the home
\* page and the radio shows its first label
FirstRun == [k \in {"page", "nav_radio"} |->
                IF k = "page" THEN "home" ELSE page_labels[1]]

set_page(s, name) == Put(s, "page", name)

\* feature cards of page_home that carry an on_click: widget key, title and
\* the name their callback hands to _set_page
HomeCards ==
    << <<"home_calc", "Energy Calculations (Student)", "calc">>,
       <<"home_transition_gen", "Electricity Generation Planning", "transition_gen">>,
       <<"home_transition_transport", "Transport & Mobility Planning",
         "transition_transport">>,
       <<"home_home_utils", "Home Utilities & Household", "home_utilities">>,
       <<"home_sequestration", "Carbon Sequestration", "sequestration">>,
       <<"home_ideal_society", "Build Your Ideal Sustainable Society",
         "ideal_society">>,
       <<"home_conv", "Conversions & Units", "conversions">>,
       <<"home_eia", "Fuel & Energy Data (EIA)", "eia">>,
       <<"home_ai_sust", "AI, Policy & Sustainability", "ai_sustainability">>,
       <<"home_mer", "Annual Energy Review", "monthly_review">> >>

\* _route: the page function each branch calls
RouteBranches ==
    << <<"home", "page_home">>,
       <<"homework", "page_homework_tools">>,
       <<"calc", "page_energy_calculations">>,
       <<"transition_gen", "page_transition_generation">>,
       <<"home_utilities", "page_home_utilities">>,
       <<"transition_transport", "page_transition_transport">>,
       <<"pv_tools", "page_pv_tools">>,
       <<"sequestration", "page_sequestration">>,
       <<"eia", "page_eia">>,
       <<"conversions", "page_conversions">>,
       <<"knowledge", "page_ai_education_policy">>,
       <<"monthly_review", "page_monthly_review">>,
       <<"ideal_society", "page_ideal_society">>,
       <<"about", "page_about">> >>

\* the page function _route calls, "None" when no branch matches
route(s) ==
    LET page == s["page"]
        hits == {i \in DOMAIN RouteBranches : RouteBranches[i][1] = page}
    IN  IF hits = {} THEN "None"
        ELSE RouteBranches[CHOOSE i \in hits : \A j \in hits : i <= j][2]

\* index argument of the sidebar radio
current_index(s) ==
    LET current_page_key == s["page"]
    IN  IF current_page_key \in Range(page_keys)
        THEN index(page_keys, current_page_key)
        ELSE 1

\* what st.radio returns.  After a pick in the sidebar it is the picked
\* label.  After a card's callback the radio is built with another index
\* argument: Streamlit then either keeps the selection stored under the
\* widget key or starts the widget anew at its index argument.
RadioAnswers(s, picked) ==
    IF picked THEN {s["nav_radio"]}
    ELSE {s["nav_radio"], page_labels[current_index(s)]}

\* sidebar_site, navigation part: the session after the radio has answered
sidebar_site(s, selected_label) ==
    LET current_page_key == s["page"]
        selected_route_key == page_keys[index(page_labels, selected_label)]
        shown == Put(s, "nav_radio", selected_label)
    IN  IF selected_route_key # current_page_key
        THEN set_page(shown, selected_route_key)
        ELSE shown

\* the user picks another label in the sidebar radio
SidebarSelect ==
    /\ pc = "idle"
    /\ \E label \in Range(page_labels) :
          /\ label # session_state["nav_radio"]
          /\ session_state' = Put(session_state, "nav_radio", label)
    /\ pc' = "nav_radio"
    /\ UNCHANGED <<engine, args, services, rendered>>

\* the user presses "Open" on a card of the home page: the on_click callback
CardClick ==
    /\ pc = "idle"
    /\ route(session_state) = "page_home"
    /\ \E i \in DOMAIN HomeCards :
          /\ session_state' = set_page(session_state, HomeCards[i][3])
          /\ args' = [op |-> "feature_card", key |-> HomeCards[i][1]]
    /\ pc' = "on_click"
    /\ UNCHANGED <<engine, services, rendered>>

\* main: the script runs after the widget event, sidebar first, router last
Main ==
    /\ pc \in {"nav_radio", "on_click"}
    /\ \E selected_label \in RadioAnswers(session_state, pc = "nav_radio") :
          LET s == sidebar_site(session_state, selected_label)
          IN  /\ session_state' = s
              /\ ret' = [k |-> "route", page |-> route(s)]
    /\ pc' = "main"
    /\ UNCHANGED <<engine, args, tou, eia, nrel, rendered>>

-----------------------------------------------------------------------------
(* The game page (ideal_society.py): widgets keep their values in the       *)
(* session store under their keys; sliders hold integers, the storage       *)
(* slider a float, checkboxes booleans.                                     *)

HighScoreKey == "ideal_society_high_score"

\* widget values of the first render: the defaults of every keyed widget
IdealDefaults ==
    [ideal_society_name |-> "Solaria",
     ideal_society_template |-> "Eco-Village",
     ideal_society_climate |-> "Cold & cloudy",
     ideal_society_population |-> 100000,
     ideal_society_density |-> 4000,
     ideal_society_transit_share |-> 40,
     ideal_society_res_share |-> 40,
     ideal_society_com_share |-> 25,
     ideal_society_ind_share |-> 15,
     ideal_society_ag_share |-> 20,
     ideal_society_passive |-> TRUE,
     ideal_society_heat_pumps |-> TRUE,
     ideal_society_led |-> TRUE,
     ideal_society_smart_controls |-> TRUE,
     ideal_society_green_roofs |-> FALSE,
     ideal_society_energy_options |->
         <<"Rooftop solar PV", "Utility-scale solar PV", "Onshore wind",
           "Geothermal heat pumps", "District heating/cooling">>,
     ideal_society_renewables_share |-> 85,
     ideal_society_storage_hours |-> Q(6, 1),
     ideal_society_demand_response |-> TRUE,
     ideal_society_ev_share |-> 70,
     ideal_society_shared_mobility |-> TRUE,
     ideal_society_freight_elec |-> FALSE,
     ideal_society_reuse_rate |-> 60,
     ideal_society_local_food |-> 40,
     ideal_society_building_reuse |-> TRUE,
     ideal_society_equity_focus |-> TRUE,
     ideal_society_nature_corridors |-> TRUE,
     ideal_society_education_programs |-> TRUE]

\* key.startswith("ideal_society_") over the keys the session can hold
StartsWithIdealSociety(key) ==
    key \in DOMAIN IdealDefaults \cup {HighScoreKey, "ideal_society_challenge"}

\* building-efficiency score
efficiency_score(w) ==
    LET passive == IF w.ideal_society_passive THEN 30 ELSE 0
        heat_pumps == IF w.ideal_society_heat_pumps THEN 25 ELSE 0
        led == IF w.ideal_society_led THEN 15 ELSE 0
        smart_controls == IF w.ideal_society_smart_controls THEN 15 ELSE 0
        green_roofs == IF w.ideal_society_green_roofs THEN 15 ELSE 0
    IN  PyMin(Q(passive + heat_pumps + led + smart_controls + green_roofs, 1),
              Q(100, 1))

circularity_score(w) ==
    LET base == FAdd(FMul(Q(w.ideal_society_reuse_rate, 1), Q(3, 10)),
                     FMul(Q(w.ideal_society_local_food, 1), Q(2, 10)))
        building_reuse == IF w.ideal_society_building_reuse THEN 15 ELSE 0
        nature_corridors == IF w.ideal_society_nature_corridors THEN 10 ELSE 0
    IN  PyMin(Q(100, 1), FAdd(base, Q(building_reuse + nature_corridors, 1)))

transport_score(w) ==
    LET base == FAdd(FMul(Q(4, 10), Q(w.ideal_society_transit_share, 1)),
                     FMul(Q(4, 10), Q(w.ideal_society_ev_share, 1)))
        shared_mobility == IF w.ideal_society_shared_mobility THEN 10 ELSE 0
        freight_elec == IF w.ideal_society_freight_elec THEN 10 ELSE 0
    IN  PyMin(Q(100, 1), FAdd(base, Q(shared_mobility + freight_elec, 1)))

energy_score(w) ==
    LET storage == IF FLe(Q(4, 1), w.ideal_society_storage_hours) THEN 10 ELSE 0
        demand_response == IF w.ideal_society_demand_response THEN 5 ELSE 0
    IN  PyMin(Q(100, 1),
              Q(w.ideal_society_renewables_share + storage + demand_response, 1))

\* composite sustainability score
sustainability_score(w) ==
    FAdd(FAdd(FAdd(FMul(Q(3, 10), energy_score(w)),
                   FMul(Q(25, 100), transport_score(w))),
              FMul(Q(25, 100), efficiency_score(w))),
         FMul(Q(2, 10), circularity_score(w)))

\* lines 436-438 without the comparison: every render stores its score
StoreHighScore_Always(s, score) == Put(s, HighScoreKey, score)

\* lines 436-438: a score above the previous best replaces it
StoreHighScore(s, score) ==
    LET previous_best == s[HighScoreKey]
    IN  IF FLt(previous_best, score) THEN Put(s, HighScoreKey, score) ELSE s

\* lines 531-533: the reset drops the game's keys but the high score
ResetChoices(s) ==
    Pop(s, {key \in DOMAIN s :
               StartsWithIdealSociety(key) /\ key # HighScoreKey})

\* one run of page_ideal_society.  w: the widget values of this run;
\* challenge: 0, or the number of the challenge random.choice drew after a
\* press of "Generate a challenge"; reset: the reset button was pressed
page_ideal_society(s, w, challenge, reset) ==
    LET s1 == IF HighScoreKey \in DOMAIN s THEN s ELSE Put(s, HighScoreKey, Zero)
        s2 == [key \in DOMAIN s1 \cup DOMAIN w |->
                  IF key \in DOMAIN w THEN w[key] ELSE s1[key]]
        s3 == IF challenge # 0 THEN Put(s2, "ideal_society_challenge", challenge)
              ELSE s2
        s4 == StoreHighScore(s3, sustainability_score(w))
    IN  IF reset THEN ResetChoices(s4) ELSE s4

\* widgets that enter the score, in page order, with the lowest and the
\* highest value each can take
ScoreWidgets ==
    << <<"ideal_society_transit_share", 0, 100>>,
       <<"ideal_society_passive", FALSE, TRUE>>,
       <<"ideal_society_heat_pumps", FALSE, TRUE>>,
       <<"ideal_society_led", FALSE, TRUE>>,
       <<"ideal_society_smart_controls", FALSE, TRUE>>,
       <<"ideal_society_green_roofs", FALSE, TRUE>>,
       <<"ideal_society_renewables_share", 0, 100>>,
       <<"ideal_society_storage_hours", Q(0, 1), Q(48, 1)>>,
       <<"ideal_society_demand_response", FALSE, TRUE>>,
       <<"ideal_society_ev_share", 0, 100>>,
       <<"ideal_society_shared_mobility", FALSE, TRUE>>,
       <<"ideal_society_freight_elec", FALSE, TRUE>>,
       <<"ideal_society_reuse_rate", 0, 100>>,
       <<"ideal_society_local_food", 0, 100>>,
       <<"ideal_society_building_reuse", FALSE, TRUE>>,
       <<"ideal_society_nature_corridors", FALSE, TRUE>> >>

\* the defaults with the first n score widgets moved to one end of their range
Moved(n, end) ==
    [key \in DOMAIN IdealDefaults |->
        LET hits == {i \in 1..n : ScoreWidgets[i][1] = key}
        IN  IF hits = {} THEN IdealDefaults[key]
            ELSE ScoreWidgets[CHOOSE i \in hits : TRUE][end]]

\* designs the player moves through, one widget per run
IdealChoices == {Moved(n, end) : n \in 0..Len(ScoreWidgets), end \in {2, 3}}

\* the session holds the widgets' keys
HasWidgets(s) == DOMAIN IdealDefaults \subseteq DOMAIN s

\* the widget values stored in the session
StoredWidgets(s) == [key \in DOMAIN IdealDefaults |-> s[key]]

\* widget values a run can see: the defaults when the session holds no
\* widget keys, else the stored values with at most one widget changed
WidgetRuns(s) ==
    IF ~HasWidgets(s) THEN {IdealDefaults}
    ELSE {w \in IdealChoices :
             Cardinality({key \in DOMAIN w : w[key] # s[key]}) <= 1}

Challenges == 1..5

\* the page is rendered: first visit, a widget change, or the run that
\* st.rerun starts after a reset
PageIdealSociety ==
    /\ pc \in {"idle", "ideal_society_reset"}
    /\ \E w \in WidgetRuns(session_state) :
          /\ session_state' = page_ideal_society(session_state, w, 0, FALSE)
          /\ ret' = sustainability_score(w)
          /\ rendered' = PyMax(rendered, sustainability_score(w))
    /\ pc' = "page_ideal_society"
    /\ UNCHANGED <<engine, args, tou, eia, nrel>>

\* "Generate a challenge" is pressed: the page runs with the stored widgets
GenerateChallenge ==
    /\ pc = "idle"
    /\ HasWidgets(session_state)
    /\ \E challenge \in Challenges :
          LET w == StoredWidgets(session_state)
          IN  /\ session_state' = page_ideal_society(session_state, w, challenge, FALSE)
              /\ ret' = sustainability_score(w)
              /\ rendered' = PyMax(rendered, sustainability_score(w))
    /\ pc' = "ideal_society_challenge"
    /\ UNCHANGED <<engine, args, tou, eia, nrel>>

\* "Reset choices and design a new society" is pressed: the page runs with
\* the stored widgets, drops the game's keys and asks for a rerun
ResetIdealSociety ==
    /\ pc = "idle"
    /\ HasWidgets(session_state)
    /\ LET w == StoredWidgets(session_state)
       IN  /\ session_state' = page_ideal_society(session_state, w, 0, TRUE)
           /\ ret' = sustainability_score(w)
           /\ rendered' = PyMax(rendered, sustainability_score(w))
    /\ pc' = "ideal_society_reset"
    /\ UNCHANGED <<engine, args, tou, eia, nrel>>

\* the page is rendered again: the handler's locals are gone, the session
\* state stays
Rerun ==
    /\ pc \notin {"idle", "ev_tou_cost", "nav_radio", "on_click",
                 "ideal_society_reset"}
    /\ pc' = "idle"
    /\ rows' = <<>>
    /\ df' = <<>>
    /\ weights' = <<>>
    /\ pvwatts_used_any' = FALSE
    /\ args' = NoArgs
    /\ tou' = NoLocals
    /\ eia' = NewEIA
    /\ nrel' = NewNREL
    /\ ret' = NoneVal
    /\ UNCHANGED <<pvwatts_last_error, session>>

Init ==
    /\ pc = "idle"
    /\ rows = <<>>
    /\ df = <<>>
    /\ weights = <<>>
    /\ pvwatts_used_any = FALSE
    /\ pvwatts_last_error = "None"
    /\ args = NoArgs
    /\ tou = NoLocals
    /\ eia = NewEIA
    /\ nrel = NewNREL
    /\ ret = NoneVal
    /\ session_state = FirstRun
    /\ rendered = Zero

\* the handlers of the engine, the tools and the clients; the navigation and
\* the game page, whose session keys outlive every rerun, run over the same
\* Init in NextNav and NextIdeal
Next ==
    \/ RankOptions
    \/ ScoreOptions
    \/ TransportWeights
    \/ HomeWeights
    \/ RankAgain
    \/ ScoreAgain
    \/ EvCall
    \/ EvEdgeCall
    \/ EvTabCall
    \/ EvLoop
    \/ EvReturn
    \/ FetchRetailPrice
    \/ FetchTotalEnergySeries
    \/ FetchTotalEnergyMulti
    \/ EiaCall
    \/ PvwattsAcAnnualCall
    \/ PvwattsFullCall
    \/ PagePvTools
    \/ PageEnergyCalculations
    \/ PvAreaForAvgPower
    \/ PvAreaAtHalfEta
    \/ CarbonIntensityFromFormula
    \/ CarbonIntensityAtHigherHHV
    \/ Rerun

Spec == Init /\ [][Next]_vars

\* the generation page alone
NextRank == RankOptions \/ Rerun

SpecRank == Init /\ [][NextRank]_vars

\* the recommender alone
NextScore == ScoreOptions \/ Rerun

SpecScore == Init /\ [][NextScore]_vars

\* the EV charging cost tool alone
NextEv == EvCall \/ EvLoop \/ EvReturn \/ Rerun

SpecEv == Init /\ [][NextEv]_vars

\* the calls at the edges of the signature; the loop is sequential code, so
\* a pass or the return that can be taken is taken
NextEvEdge == EvEdgeCall \/ EvLoop \/ EvReturn \/ Rerun

SpecEvEdge ==
    Init /\ [][NextEvEdge]_vars /\ WF_vars(EvLoop) /\ WF_vars(EvReturn)

\* the calls of the EV tab, the loop scheduled as above
NextEvTab == EvTabCall \/ EvLoop \/ EvReturn \/ Rerun

SpecEvTab ==
    Init /\ [][NextEvTab]_vars /\ WF_vars(EvLoop) /\ WF_vars(EvReturn)

\* the single remote lookups of the two clients
NextLookups ==
    \/ FetchRetailPrice
    \/ FetchTotalEnergySeries
    \/ PvwattsAcAnnualCall
    \/ PvwattsFullCall
    \/ Rerun

SpecLookups == Init /\ [][NextLookups]_vars

\* everything that sends a PVWatts or an EIA request
NextRemote == RankOptions \/ NextLookups \/ FetchTotalEnergyMulti

SpecRemote == Init /\ [][NextRemote]_vars

\* the two calculator pages
NextPages == PagePvTools \/ PageEnergyCalculations \/ Rerun

SpecPages == Init /\ [][NextPages]_vars

\* the formulas of tools.py called on their own
NextTools ==
    \/ PvAreaForAvgPower
    \/ PvAreaAtHalfEta
    \/ CarbonIntensityFromFormula
    \/ CarbonIntensityAtHigherHHV
    \/ Rerun

SpecTools == Init /\ [][NextTools]_vars

\* the two ranking steps, each run once or twice on the same input
NextTwice == RankOptions \/ ScoreOptions \/ RankAgain \/ ScoreAgain \/ Rerun

SpecTwice == Init /\ [][NextTwice]_vars

\* several calls on one EIA client
NextClient == EiaCall \/ Rerun

SpecClient == Init /\ [][NextClient]_vars

\* the stacked lookup
NextMulti == FetchTotalEnergyMulti \/ Rerun

SpecMulti == Init /\ [][NextMulti]_vars

\* the two handlers that return a ranked table
NextTables == RankOptions \/ ScoreOptions \/ Rerun

SpecTables == Init /\ [][NextTables]_vars

-----------------------------------------------------------------------------
(* Properties.                                                             *)

Ranked == pc = "_rank_options"

Scored == pc = "score_options"

\* the composite score column of the table shown, top row first
ScoreColumn ==
    IF Ranked THEN [k \in DOMAIN df |-> df[k].Score_0to1]
    ELSE IF Scored THEN [k \in DOMAIN df |-> df[k].MCDA_Score_0to1]
    ELSE <<>>

\* the position at which the generator appended the k-th row of the table
InsertionIndex(k) ==
    IF Ranked THEN CHOOSE i \in DOMAIN rows : rows[i].Technology = df[k].Technology
    ELSE df[k].idx

\* max(v, 0)
Positive(v) == IF FLt(Zero, v) THEN v ELSE Zero

\* norm[k] is max(col[k], 0) over the largest max(col[j], 0), and 0 for every
\* row when that largest value is 0
DividedByMax(col, norm) ==
    \A k \in DOMAIN col :
        IF \A j \in DOMAIN col : ~FLt(Zero, col[j]) THEN FEq(norm[k], Zero)
        ELSE \E j \in DOMAIN col :
                /\ \A i \in DOMAIN col : FLe(Positive(col[i]), Positive(col[j]))
                /\ FEq(norm[k], FDiv(Positive(col[k]), Positive(col[j])))

\* the rows whose payback is a positive finite number
PaysBack == {k \in DOMAIN df : IsNum(df[k].Payback_yr) /\ FLt(Zero, df[k].Payback_yr)}

\* every candidate row has zero savings and zero CO2 reduction
Degenerate ==
    \A i \in DOMAIN rows :
        /\ FEq(rows[i].Annual_Savings_USD, Zero)
        /\ FEq(rows[i].CO2e_Reduction_tpy, Zero)

\* the payback column of the table shown
PaybackOf(r) == IF Ranked THEN r.Payback_yr ELSE r.Simple_Payback_yr

\* the Load_Covered_% credited to the rows of one technology (0 if absent)
Credited(technology) ==
    SeqSum([i \in DOMAIN rows |->
               IF rows[i].Technology = technology THEN rows[i].Load_Covered ELSE Zero])

\* C1: the table returned by _rank_options (Score_0to1) and by score_options
\* (MCDA_Score_0to1) is ordered so that the composite score never increases
\* from one row to the next.
C1_NonIncreasing ==
    \A k \in DOMAIN ScoreColumn :
        k + 1 \in DOMAIN ScoreColumn => FLe(ScoreColumn[k + 1], ScoreColumn[k])

\* a five-row ranking whose sort moved another option above the rooftop row
C1_Witness ==
    /\ Ranked
    /\ Len(df) = 5
    /\ df[1].Technology # rows[1].Technology
    /\ FLt(df[5].Score_0to1, df[1].Score_0to1)

\* C2: every composite score of a returned table is a number (never NaN)
\* between 0 and 1, also when a column's maximum or range is zero.
C2_InUnitInterval ==
    \A k \in DOMAIN ScoreColumn :
        /\ IsNum(ScoreColumn[k])
        /\ FLe(Zero, ScoreColumn[k])
        /\ FLe(ScoreColumn[k], One)

\* a ranking in which no option saves money (the savings column's maximum is
\* zero) and some option still scores above 0
C2_Witness ==
    /\ Ranked
    /\ \A i \in DOMAIN rows : ~FLt(Zero, rows[i].Annual_Savings_USD)
    /\ \E i \in DOMAIN rows : FLt(rows[i].Annual_Savings_USD, Zero)
    /\ \E k \in DOMAIN df : FLt(Zero, df[k].Score_0to1)

\* C3: the weight vector used for a composite score is a convex combination:
\* every weight is in [0,1] and the weights sum to 1, for every goal string
\* and every slider setting, all sliders at 0 included.
C3_Convex ==
    weights # <<>> =>
        /\ \A i \in DOMAIN weights :
              IsNum(weights[i]) /\ FLe(Zero, weights[i]) /\ FLe(weights[i], One)
        /\ FEq(SeqSum(weights), One)

\* the transport page with all four sliders at 0: the default vector is used
C3_Witness ==
    /\ pc = "page_transition_transport"
    /\ args.raw_vec = <<Zero, Zero, Zero, Zero>>
    /\ weights = TransportDefaultWeights

\* C4: rows with equal composite scores are returned in the order in which
\* the generator appended them (the sort is stable).
C4_Stable ==
    \A k \in DOMAIN ScoreColumn, l \in DOMAIN ScoreColumn :
        (k < l /\ FEq(ScoreColumn[k], ScoreColumn[l]))
            => InsertionIndex(k) < InsertionIndex(l)

\* C5: in _rank_options the savings and the CO2 sub-score of a row are the
\* column value, floored at 0, divided by the largest such value of the
\* column; when that maximum is zero every row's sub-score is 0.
C5_ByColumnMax ==
    Ranked =>
        /\ DividedByMax([k \in DOMAIN df |-> df[k].Annual_Savings_USD],
                        [k \in DOMAIN df |-> df[k].norm_s])
        /\ DividedByMax([k \in DOMAIN df |-> df[k].CO2e_Reduction_tpy],
                        [k \in DOMAIN df |-> df[k].norm_c])

\* a ranking with a row of negative savings, a savings maximum strictly
\* between the rows, and a CO2 sub-score strictly between 0 and 1
C5_Witness ==
    /\ Ranked
    /\ \E k \in DOMAIN df : FLt(df[k].Annual_Savings_USD, Zero) /\ FEq(df[k].norm_s, Zero)
    /\ \E k \in DOMAIN df : FLt(Zero, df[k].norm_s) /\ FLt(df[k].norm_s, One)
    /\ \E k \in DOMAIN df : FLt(Zero, df[k].norm_c) /\ FLt(df[k].norm_c, One)

\* C6: score_options divides each value of Annual_Savings_USD and of
\* CO2e_Reduction_tpy by the column maximum, so that a row with value v gets
\* v/max and only a row whose value is 0 gets sub-score 0.
C6_ByColumnMax ==
    Scored =>
        /\ DividedByMax([k \in DOMAIN df |-> df[k].Annual_Savings_USD],
                        [k \in DOMAIN df |-> df[k].score_savings])
        /\ DividedByMax([k \in DOMAIN df |-> df[k].CO2e_Reduction_tpy],
                        [k \in DOMAIN df |-> df[k].score_co2e])
        /\ \A k \in DOMAIN df :
              /\ FEq(df[k].score_savings, Zero) => FEq(df[k].Annual_Savings_USD, Zero)
              /\ FEq(df[k].score_co2e, Zero) => FEq(df[k].CO2e_Reduction_tpy, Zero)

\* C7: the payback sub-score of a row is the smallest positive finite payback
\* of the table over the row's payback, within [0,1]; a row whose payback is
\* zero or infinite gets 0 and does not take part in the minimum, so the row
\* with the smallest positive finite payback gets 1.
C7_PaybackSubScore ==
    Ranked =>
        \A k \in DOMAIN df :
            IF k \in PaysBack
            THEN /\ \E j \in PaysBack :
                       /\ \A i \in PaysBack : FLe(df[j].Payback_yr, df[i].Payback_yr)
                       /\ FEq(df[k].norm_p, FDiv(df[j].Payback_yr, df[k].Payback_yr))
                 /\ FLe(Zero, df[k].norm_p) /\ FLe(df[k].norm_p, One)
                 /\ (\A i \in PaysBack : FLe(df[k].Payback_yr, df[i].Payback_yr))
                        => FEq(df[k].norm_p, One)
            ELSE FEq(df[k].norm_p, Zero)

\* a ranking with a zero payback (no capex), an infinite one (no savings) and
\* two different positive finite ones
C7_Witness ==
    /\ Ranked
    /\ \E k \in DOMAIN df : FEq(df[k].Payback_yr, Zero)
    /\ \E k \in DOMAIN df : IsInf(df[k].Payback_yr)
    /\ \E k \in PaysBack : FEq(df[k].norm_p, One)
    /\ \E k \in PaysBack : FLt(Zero, df[k].norm_p) /\ FLt(df[k].norm_p, One)

\* C8: when every candidate row has zero savings and zero CO2 reduction, the
\* ranking step completes, returns every candidate row once, and every
\* composite score is exactly 0 (a number, not NaN).
C8_Degenerate ==
    (Ranked /\ Degenerate) =>
        /\ Len(df) = Len(rows)
        /\ {df[k].Technology : k \in DOMAIN df} = {rows[i].Technology : i \in DOMAIN rows}
        /\ \A k \in DOMAIN df : FEq(df[k].Score_0to1, Zero)

\* a ranking for a target of 0 % with all five options
C8_Witness ==
    /\ Ranked
    /\ FEq(args.target, Zero)
    /\ Degenerate
    /\ Len(df) = 5

\* C9: every row of a returned table has finite capital cost, annual savings
\* and CO2 reduction; its payback is capital cost / annual savings when the
\* savings are positive and infinite otherwise.
C9_FiniteAndPayback ==
    \A k \in DOMAIN ScoreColumn :
        /\ IsNum(df[k].Capex_USD)
        /\ IsNum(df[k].Annual_Savings_USD)
        /\ IsNum(df[k].CO2e_Reduction_tpy)
        /\ IF FLt(Zero, df[k].Annual_Savings_USD)
           THEN FEq(PaybackOf(df[k]), FDiv(df[k].Capex_USD, df[k].Annual_Savings_USD))
           ELSE IsInf(PaybackOf(df[k]))

\* a ranking with a row that costs money every year (infinite payback), a
\* row that pays back in a positive time and a row that pays back at once
C9_Witness ==
    /\ Ranked
    /\ \E k \in DOMAIN df : FLt(df[k].Annual_Savings_USD, Zero) /\ IsInf(df[k].Payback_yr)
    /\ \E k \in DOMAIN df : IsNum(df[k].Payback_yr) /\ FLt(Zero, df[k].Payback_yr)
    /\ \E k \in DOMAIN df :
          FLt(Zero, df[k].Annual_Savings_USD) /\ FEq(df[k].Payback_yr, Zero)

DefaultScenario ==
    /\ Ranked
    /\ FEq(args.annual, Q(10000, 1)) /\ FEq(args.rate, Q(18, 100))
    /\ FEq(args.grid, Q(38, 100)) /\ FEq(args.target, Q(80, 1))
    /\ ~args.latlon /\ FEq(args.roof, Zero)
    /\ args.tilt = 27 /\ FEq(args.shading, Q(8, 1))

\* the rooftop row of the candidate rows
Rooftop == rows[CHOOSE i \in DOMAIN rows : rows[i].Technology = "Rooftop PV"]

\* |a - b| <= tol
Near(a, b, tol) == FLe(FSub(a, b), tol) /\ FLe(FSub(b, a), tol)

\* C11 (as amended): in the default scenario the rooftop row is sized at
\* 7.1 kW (capex 7.1 x 1800), yields 8946 x 0.97 x 0.92 = 7983.4104 kWh/yr,
\* which is below the 8,000 kWh cap and therefore credited in full, saves
\* 7983.4104 x 0.18 = 1437.01 USD and avoids 3.034 t CO2e per year.
C11_EndToEnd ==
    DefaultScenario =>
        /\ FEq(Rooftop.Capex_USD, FMul(Q(71, 10), Q(1800, 1)))
        /\ FEq(Rooftop.Annual_kWh, Q(79834104, 10000))
        /\ FEq(Rooftop.Load_Covered, Q(79834104, 1000000))
        /\ FEq(Rooftop.Annual_Savings_USD, FMul(Q(79834104, 10000), Q(18, 100)))
        /\ FEq(Rooftop.CO2e_Reduction_tpy,
               FDiv(FMul(Q(79834104, 10000), Q(38, 100)), Q(1000, 1)))

\* the default scenario, its rooftop yield below the cap of 8,000 kWh
C11_Witness ==
    /\ DefaultScenario
    /\ FLt(Rooftop.Annual_kWh, Q(8000, 1))
    /\ FLt(Rooftop.Load_Covered, args.target)

\* C11 (as stated): in the default scenario the rooftop row is sized at
\* 7.1 kW, yields about 8,230 kWh/yr, is credited with the capped 8,000 kWh,
\* saves 1,440 USD and avoids 3.04 t CO2e per year.
C11_AsStated ==
    DefaultScenario =>
        /\ FEq(Rooftop.Capex_USD, FMul(Q(71, 10), Q(1800, 1)))
        /\ Near(Rooftop.Annual_kWh, Q(8230, 1), Q(10, 1))
        /\ FEq(Rooftop.Load_Covered, Q(80, 1))
        /\ FEq(Rooftop.Annual_Savings_USD, Q(1440, 1))
        /\ FEq(Rooftop.CO2e_Reduction_tpy, Q(304, 100))

-----------------------------------------------------------------------------
(* EV charging cost.                                                       *)

EvDone == pc = "ev_done"

\* the quarter hour of the day, 0..95, that the k-th step of a call starts in
QuarterOfDay(k) == (4 * args.start_hour + k) % 96

CoveredBy(k, blk) == 4 * blk.s <= QuarterOfDay(k) /\ QuarterOfDay(k) < 4 * blk.e

Uncovered(k) == \A i \in DOMAIN args.tariff_blocks : ~CoveredBy(k, args.tariff_blocks[i])

\* the steps the call has been through so far
Visited == {k \in 0..(4 * MaxEvHours) : FLt(Q(4 * args.start_hour + k, 4), tou.h)}

\* the call went through an hour that no block covers
Dropped == \E k \in Visited : Uncovered(k)

\* price of the first block, in list order, that covers step k
PriceAt(k) ==
    LET b == args.tariff_blocks
        i == CHOOSE i \in DOMAIN b :
                 CoveredBy(k, b[i]) /\ \A j \in 1..(i - 1) : ~CoveredBy(k, b[j])
    IN  b[i].price

HoursNeeded == FDiv(args.kwh_needed, args.charger_kw)

\* number of whole quarter hours in HoursNeeded, and what is left after them
WholeSteps == (4 * HoursNeeded.n) \div HoursNeeded.d

LastStep == FSub(HoursNeeded, Q(WholeSteps, 4))

\* sum over the increments of price x charger_kw x increment
IncrementSum ==
    FAdd(SeqSum([k \in 1..WholeSteps |->
                    FMul(FMul(PriceAt(k - 1), args.charger_kw), Q(1, 4))]),
         IF FLt(Zero, LastStep)
         THEN FMul(FMul(PriceAt(WholeSteps), args.charger_kw), LastStep)
         ELSE Zero)

StepsTaken == WholeSteps + (IF FLt(Zero, LastStep) THEN 1 ELSE 0)

\* C12: when every hour the call visits is covered by a block, ev_tou_cost
\* charges kwh_needed / charger_kw hours in quarter-hour increments, the last
\* one possibly shorter, and returns the sum of price x charger_kw x increment
\* with the price of the first covering block in list order, past midnight
\* included; if every increment is priced p the result is p x kwh_needed
\* (30 kWh at 7 kW from 22:00 on the 0.14 night tariff costs 4.20).
C12_TouCost ==
    (EvDone /\ ~Dropped) =>
        /\ FEq(tou.h, Q(4 * args.start_hour + StepsTaken, 4))
        /\ FEq(tou.remaining, Zero)
        /\ FEq(ret, IncrementSum)
        /\ \A i \in DOMAIN args.tariff_blocks :
              (\A k \in Visited : PriceAt(k) = args.tariff_blocks[i].price)
                 => FEq(ret, FMul(args.tariff_blocks[i].price, args.kwh_needed))
        /\ ( /\ FEq(args.kwh_needed, Q(30, 1)) /\ FEq(args.charger_kw, Q(7, 1))
             /\ args.start_hour = 22 /\ args.tariff_blocks = NightOnly )
              => FEq(ret, Q(420, 100))

\* the 4.20 example has returned, having charged across midnight
C12_Witness ==
    /\ EvDone /\ ~Dropped
    /\ FEq(args.kwh_needed, Q(30, 1)) /\ FEq(args.charger_kw, Q(7, 1))
    /\ args.start_hour = 22 /\ args.tariff_blocks = NightOnly
    /\ FLt(Q(24, 1), tou.h)
    /\ FEq(ret, Q(420, 100))

\* the step the running call is at: quarter hours since start_hour
CurrentStep == (4 * tou.h.n) \div tou.h.d - 4 * args.start_hour

\* no block covers any quarter hour of the day
NothingCovered == \A k \in 0..95 : Uncovered(k)

\* C13: at an hour outside every supplied block a pass of ev_tou_cost moves
\* the clock on by a quarter hour without consuming energy or accruing cost;
\* at a covered hour it consumes energy; and the call never returns when
\* energy is needed and no block covers any hour of the day.
C13_DropsTime ==
    /\ [][(pc = "ev_tou_cost" /\ tou' # tou) =>
             /\ pc' = "ev_tou_cost"
             /\ FEq(tou'.h, FAdd(tou.h, Q(1, 4)))
             /\ IF Uncovered(CurrentStep)
                THEN FEq(tou'.remaining, tou.remaining) /\ FEq(tou'.cost, tou.cost)
                ELSE FLt(tou'.remaining, tou.remaining)]_vars
    /\ [](EvDone => ~(NothingCovered /\ FLt(Epsilon, HoursNeeded)))

\* a call with no tariff block at all is still looping after MaxEvHours,
\* with all its energy still to charge and nothing accrued
C13_Witness ==
    /\ pc = "ev_tou_cost"
    /\ NothingCovered
    /\ FLe(Q(args.start_hour + MaxEvHours, 1), tou.h)
    /\ FLt(Epsilon, tou.remaining) /\ FEq(tou.remaining, HoursNeeded)
    /\ FEq(tou.cost, Zero)

\* C13 as stated: a call that has been through an hour outside every block
\* never returns
C13_AsStated == EvDone => ~Dropped

-----------------------------------------------------------------------------
(* Remote lookups.                                                         *)

EiaLookups == {"fetch_retail_price", "fetch_total_energy_series"}

NrelLookups == {"pvwatts_ac_annual", "pvwatts_full"}

LookupDone == pc \in EiaLookups \cup NrelLookups

\* the client the finished lookup was made on, and the response it got
Client == IF pc \in EiaLookups THEN eia ELSE nrel

Answer == args.rs[1]

AllNumeric(rws) == \A i \in DOMAIN rws : rws[i].value.k = "num"

\* the failures the contract lists: no key, exception or timeout, a status
\* outside 2xx, an empty payload
ListedFailure ==
    \/ ~Client.api_key
    \/ Answer.status = 0
    \/ Answer.status \notin 200..299
    \/ Answer.json /\ pc \in EiaLookups /\ (Answer.total = 0 \/ Answer.data = <<>>)
    \/ Answer.json /\ pc \in NrelLookups /\ Answer.outputs = "missing"

\* a well-formed answer to a well-formed request
Success ==
    /\ Client.api_key /\ Answer.status = 200 /\ Answer.json
    /\ pc \in EiaLookups =>
          Answer.total > 0 /\ Answer.data # <<>> /\ AllNumeric(Answer.data)
    /\ pc = "fetch_total_energy_series" => args.frequency \in {"annual", "monthly"}
    /\ pc \in NrelLookups => ~Answer.errors /\ Answer.outputs = "present"
    /\ pc = "pvwatts_ac_annual" => Answer.ac_annual.k = "num"

\* what the answer holds, read off the payload
Parsed ==
    IF pc = "fetch_retail_price"
    THEN DataFrame([i \in DOMAIN Answer.data |->
             [period |-> Answer.data[i].period,
              price |-> Answer.data[i].value,
              price_cents_per_kwh |-> Answer.data[i].value,
              price_usd_per_kwh |-> Q(Answer.data[i].value.n,
                                      100 * Answer.data[i].value.d)]])
    ELSE IF pc = "fetch_total_energy_series" THEN DataFrame(Answer.data)
    ELSE IF pc = "pvwatts_ac_annual" THEN Answer.ac_annual
    ELSE [k |-> "outputs", ac_annual |-> Answer.ac_annual]

\* C14: a remote lookup returns the parsed result on success; on a missing
\* API key, a network exception or timeout, a non-2xx status (403 included)
\* or an empty payload it raises nothing, returns None and leaves last_error
\* non-null.
C14_Lookups ==
    LookupDone =>
        /\ Success => ret = Parsed
        /\ ListedFailure => ret.k = "none" /\ Client.last_error # "None"

\* a 403 answer to fetch_retail_price has been turned into None and a
\* diagnostic
C14_Witness ==
    /\ pc = "fetch_retail_price"
    /\ eia.api_key /\ Answer.status = 403
    /\ ret.k = "none"
    /\ eia.last_error = "EIA returned 403 Forbidden"

\* an answer that is well formed except that some value is not a number
NonNumericAnswer ==
    /\ pc \in EiaLookups
    /\ eia.api_key /\ Answer.status = 200 /\ Answer.json
    /\ Answer.total > 0 /\ Answer.data # <<>> /\ ~AllNumeric(Answer.data)
    /\ pc = "fetch_total_energy_series" => args.frequency \in {"annual", "monthly"}

\* C15: an otherwise successful EIA answer that carries a non-numeric value
\* is treated as a failure by fetch_retail_price and
\* fetch_total_energy_series: nothing is raised, the result is None or
\* empty, and last_error is non-null.
C15_NonNumeric ==
    NonNumericAnswer =>
        /\ ret.k # "raise"
        /\ ret.k = "none" \/ (ret.k = "df" /\ ret.rows = <<>>)
        /\ eia.last_error # "None"

MultiDone == pc = "fetch_total_energy_multi"

\* the rows of the i-th answer that a fetch of its own would return
OwnRows(i) ==
    LET r == args.rs[i]
    IN  IF eia.api_key /\ args.frequency \in {"annual", "monthly"}
           /\ r.status = 200 /\ r.json /\ r.total > 0
        THEN SelectSeq(r.data, LAMBDA row : row.value.k = "num")
        ELSE <<>>

RECURSIVE Stacked(_)
Stacked(i) ==
    IF i = 0 THEN <<>>
    ELSE Stacked(i - 1) \o [j \in DOMAIN OwnRows(i) |->
                                [msn |-> args.msns[i],
                                 period |-> OwnRows(i)[j].period,
                                 value |-> OwnRows(i)[j].value]]

\* C20: fetch_total_energy_multi fetches each requested MSN once, in order,
\* and returns the stacked (msn, period, value) rows of exactly the MSNs
\* whose own fetch returned data, skipping the others without aborting; it
\* returns None, with last_error set, only when the list is empty or no MSN
\* returned data.
C20_PartialFailure ==
    MultiDone =>
        /\ (eia.api_key /\ args.frequency \in {"annual", "monthly"})
              => eia.requests = args.msns
        /\ Len(eia.requests) <= Len(args.msns)
        /\ ret.k = "df" => ret.rows = Stacked(Len(args.msns)) /\ ret.rows # <<>>
        /\ ret.k \in {"df", "none"}
        /\ ret.k = "none" <=>
              (args.msns = <<>> \/ \A i \in DOMAIN args.msns : OwnRows(i) = <<>>)
        /\ ret.k = "none" => eia.last_error # "None"

\* the first of two MSNs failed, the second was still fetched and its rows
\* are the result
C20_Witness ==
    /\ MultiDone
    /\ Len(args.msns) = 2
    /\ args.rs[1].status = 0
    /\ OwnRows(2) # <<>>
    /\ Len(eia.requests) = 2
    /\ ret.k = "df" /\ \A j \in DOMAIN ret.rows : ret.rows[j].msn = args.msns[2]

-----------------------------------------------------------------------------
(* PVWatts and its fallback.                                               *)

\* positions of the two PV rows in the generator's list
PvRows ==
    {i \in DOMAIN rows : rows[i].Technology \in {"Rooftop PV", "Ground/Carport PV"}}

IsRoof(i) == rows[i].Technology = "Rooftop PV"

\* kWh per kWdc that PVWatts answered for row i, None when it failed
YieldFor(i) == IF IsRoof(i) THEN args.yield1 ELSE args.yield2

\* lat and lon are present, a key is available and the remote call returned
Live(i) == args.latlon /\ args.key /\ YieldFor(i).k # "none"

\* the size of the array of row i: kw_roof or extra_kw
KwDc(i) ==
    LET annual_kwh == PyOr(args.annual, Q(10000, 1))
    IN  IF IsRoof(i) THEN KwRoof(args.roof, annual_kwh)
        ELSE ExtraKw(annual_kwh, KwRoof(args.roof, annual_kwh))

\* kwdc x 300 x GHI x tilt_factor x shading_factor, GHI = 4.2
RuleOfThumb(i) ==
    LET off == IF args.tilt < 30 THEN 30 - args.tilt ELSE args.tilt - 30
        tilt_pct == 100 - (IF off > 50 THEN 50 ELSE off)
        shade == IF FLt(Q(100, 1), args.shading) THEN Zero
                 ELSE FDiv(FSub(Q(100, 1), args.shading), Q(100, 1))
    IN  FMul(FMul(FMul(KwDc(i), Q(1260, 1)), Q(tilt_pct, 100)), shade)

RoofRequestFailed == args.latlon /\ args.key /\ args.yield1.k = "none"

\* C17: there is no retry. A remote lookup sends at most one HTTP request
\* per call (fetch_total_energy_multi one per MSN), and _rank_options sends
\* one PVWatts request for each PV row it builds when lat/lon and a key are
\* there, none otherwise; a row whose request failed uses the rule-of-thumb
\* estimate. The failure is not remembered: the ground array is still asked
\* for after the rooftop request has failed.
C17_NoRetry ==
    /\ LookupDone => Len(Client.requests) <= 1
    /\ MultiDone => Len(eia.requests) <= Len(args.msns)
    /\ Ranked =>
          /\ Len(nrel.requests) =
                 (IF args.latlon /\ args.key THEN Cardinality(PvRows) ELSE 0)
          /\ \A i \in PvRows :
                (args.latlon /\ args.key /\ YieldFor(i).k = "none")
                   => rows[i].Notes = "rule-of-thumb"

\* the rooftop request failed, the ground array was asked for all the same
\* and carries the PVWatts value
C17_Witness ==
    /\ Ranked
    /\ RoofRequestFailed
    /\ Len(nrel.requests) = 2
    /\ \E i \in PvRows : ~IsRoof(i) /\ rows[i].Notes = "PVWatts"

\* C17 as stated: after a failed PVWatts request no further PVWatts request
\* is made in the same pass and every PV row uses the rule-of-thumb estimate
C17_AsStated ==
    (Ranked /\ RoofRequestFailed) =>
        /\ Len(nrel.requests) = 1
        /\ \A i \in PvRows : rows[i].Notes = "rule-of-thumb"

-----------------------------------------------------------------------------
(* The calculator pages.                                                   *)

\* C18: on the PV tools page and on the Energy Calculations page every
\* input the widgets allow, 0 for efficiency, AC nameplate, panel area, net
\* efficiency, HHV and yield included, gives a number or an explicit
\* message for each formula; no ZeroDivisionError leaves the page.
C18_NothingFatal ==
    pc \in {"page_pv_tools", "page_energy_calculations"} =>
        /\ ret.k = "page"
        /\ \A i \in DOMAIN ret.shown : ret.shown[i].k \in {"num", "info", "error"}

-----------------------------------------------------------------------------
(* Idempotence of the ranking step.                                        *)

RanTwice == pc \in {"_rank_options_again", "score_options_again"}

-----------------------------------------------------------------------------
(* C21  pv_area_for_avg_power: for average power >= 0, efficiency in (0,1] *)
(*      and insolation > 0 the value returned is power x 24 / (efficiency  *)
(*      x insolation); the call repeated with half the efficiency returns  *)
(*      exactly twice the area; with efficiency 0 or insolation 0 the call *)
(*      raises ZeroDivisionError instead of returning a value.             *)

PvAreaCalled == pc \in {"pv_area_for_avg_power", "pv_area_at_half_eta"}

ZeroDivisor == FEq(args.eta, Zero) \/ FEq(args.G_year_kwh_m2_day, Zero)

C21_PvArea ==
    /\ [](PvAreaCalled =>
            IF ZeroDivisor
            THEN ret = Raise("ZeroDivisionError")
            ELSE /\ ret.k = "num"
                 /\ FEq(FMul(ret, FMul(args.eta, args.G_year_kwh_m2_day)),
                        FMul(args.p_avg_kw, Q(24, 1))))
    /\ [][pc' = "pv_area_at_half_eta" =>
            IF ret.k = "raise"
            THEN ret' = ret
            ELSE FEq(ret', FMul(Q(2, 1), ret))]_vars

\* 10 kW at efficiency 0.23 and 4.2 kWh/m2-day, asked again at 0.115
C21_Witness ==
    /\ pc = "pv_area_at_half_eta"
    /\ args.p_avg_kw = Q(10, 1)
    /\ args.eta = Q(23, 200)
    /\ args.G_year_kwh_m2_day = Q(42, 10)
    /\ ret = Q(240 * 2000, 23 * 42)

-----------------------------------------------------------------------------
(* C22  carbon_intensity_from_formula(n_C, n_H, HHV) with n_C > 0,         *)
(*      n_H >= 0, HHV > 0 equals carbon_intensity_from_fc_hhv(f, HHV) for  *)
(*      f = 12 n_C / (12 n_C + n_H), i.e. f x (44/12) / HHV, and for the   *)
(*      same n_C, n_H a higher HHV gives a strictly lower value.           *)

CarbonCalled ==
    pc \in {"carbon_intensity_from_formula", "carbon_intensity_at_higher_hhv"}

\* the mass fraction of carbon, from the atom counts
MassFraction ==
    Q(12 * args.nC.n, 12 * args.nC.n + args.nH.n)

C22_CarbonIntensity ==
    /\ [](CarbonCalled =>
            /\ ret.k = "num"
            /\ FEq(FMul(ret, args.HHV_MJ_per_kg), FMul(MassFraction, Q(44, 12))))
    /\ [][pc' = "carbon_intensity_at_higher_hhv" =>
            /\ FLt(args.HHV_MJ_per_kg, args'.HHV_MJ_per_kg)
            /\ FLt(ret', ret)]_vars

\* octane (C8H18) at 45 MJ/kg, then at 55.5 MJ/kg
C22_Witness ==
    /\ pc = "carbon_intensity_at_higher_hhv"
    /\ args.nC = Q(8, 1)
    /\ args.nH = Q(18, 1)
    /\ args.HHV_MJ_per_kg = Q(555, 10)
    /\ ret = Q(96 * 44 * 10, 114 * 12 * 555)

-----------------------------------------------------------------------------
(* C23  ev_tou_cost with charger_kw > 0 and more than 1e-9 hours to charge *)
(*      returns if and only if some quarter hour of the day is covered by  *)
(*      a block (s <= h mod 24 < e): uncovered hours are skipped and        *)
(*      charging resumes at the next covered one; with no block, or a      *)
(*      block that covers nothing such as (22, 6), the call never returns. *)
(*      With at most 1e-9 hours to charge, kwh_needed <= 0 included, it    *)
(*      returns 0 at once.                                                 *)

EnergyNeeded == FLt(Epsilon, HoursNeeded)

C23_Termination ==
    /\ ((pc = "ev_tou_cost" /\ (~NothingCovered \/ ~EnergyNeeded)) ~> EvDone)
    /\ []((pc = "ev_tou_cost" /\ NothingCovered /\ EnergyNeeded)
             => [](pc = "ev_tou_cost"))
    /\ []((EvDone /\ ~EnergyNeeded)
             => FEq(ret, Zero) /\ FEq(tou.h, Q(args.start_hour, 1)))

\* 7 kWh at 7 kW asked for at 13:00 on a tariff for the hour from 12 to 13:
\* the call has skipped 23 hours, charged for one and returned
C23_Witness ==
    /\ EvDone
    /\ args.tariff_blocks = << Block(12, 13, Q(20, 100)) >>
    /\ args.start_hour = 13
    /\ FEq(args.kwh_needed, Q(7, 1)) /\ FEq(args.charger_kw, Q(7, 1))
    /\ FEq(tou.h, Q(37, 1))
    /\ FEq(ret, Q(140, 100))

\* C23 (as stated): a call with kwh_needed > 0 and charger_kw > 0 returns
\* only if some quarter hour of the day is covered by a block.
C23_AsStated ==
    (EvDone /\ FLt(Zero, args.kwh_needed) /\ FLt(Zero, args.charger_kw))
        => ~NothingCovered

-----------------------------------------------------------------------------
(* C24  planA and planB of the EV tab cover every hour of the day by       *)
(*      exactly one block, so for every start hour 0..23, charger power    *)
(*      and session energy of the tab both ev_tou_cost calls return, and   *)
(*      what they return does not depend on the order of the blocks.       *)

\* the plan of the page that the blocks of the call are taken from
PagePlan == IF Len(args.tariff_blocks) = Len(planA) THEN planA ELSE planB

\* the price of the block of the page's plan that covers step k
PlanPriceAt(k) ==
    PagePlan[CHOOSE i \in DOMAIN PagePlan : CoveredBy(k, PagePlan[i])].price

\* the cost of the session on the page's plan, increment by increment
PlanCost ==
    FAdd(SeqSum([k \in 1..WholeSteps |->
                    FMul(FMul(PlanPriceAt(k - 1), args.charger_kw), Q(1, 4))]),
         IF FLt(Zero, LastStep)
         THEN FMul(FMul(PlanPriceAt(WholeSteps), args.charger_kw), LastStep)
         ELSE Zero)

C24_BuiltInPlans ==
    /\ [](pc = "ev_tou_cost" =>
            /\ {args.tariff_blocks[i] : i \in DOMAIN args.tariff_blocks}
                  = {PagePlan[i] : i \in DOMAIN PagePlan}
            /\ Cardinality(Matching(tou.h, args.tariff_blocks)) = 1)
    /\ ((pc = "ev_tou_cost") ~> EvDone)
    /\ [](EvDone => FEq(ret, PlanCost))

\* 30 kWh at 7 kW from 17:00 on plan B with its blocks reversed: the session
\* crosses three blocks and costs 2 h at 0.26 plus the rest at 0.18
C24_Witness ==
    /\ EvDone
    /\ args.tariff_blocks = Reorder(planB, <<5, 4, 3, 2, 1>>)
    /\ args.start_hour = 17
    /\ FEq(args.kwh_needed, Q(30, 1)) /\ FEq(args.charger_kw, Q(7, 1))
    /\ FEq(ret, FAdd(FMul(Q(26, 100), Q(14, 1)), FMul(Q(18, 100), Q(16, 1))))

-----------------------------------------------------------------------------
(* C25  After any sequence of public calls on one EIA client, last_error   *)
(*      is non-null exactly when the most recent call returned None, and   *)
(*      last_url is None or the URL that call requested, never an error or *)
(*      a URL left by an earlier call or an earlier MSN of a multi-fetch.  *)

\* the requests the most recent call sent
SentNow == SubSeq(eia.requests, args.requests_before + 1, Len(eia.requests))

C25_Diagnostics ==
    pc = "eia_call" =>
        /\ (eia.last_error # "None") <=> (ret = NoneVal)
        /\ \/ eia.last_url = "None"
           \/ \E i \in DOMAIN SentNow : eia.last_url = base_v2(SentNow[i])

-----------------------------------------------------------------------------
(* C26  At the end of a _rank_options pass pvwatts_last_error is non-null  *)
(*      whenever some PV estimate of the pass, made with lat/lon present,  *)
(*      fell back to the rule of thumb because PVWatts was unavailable or  *)
(*      failed, and None when none did: a later estimate does not erase    *)
(*      the error an earlier one recorded.                                 *)

\* row i was estimated by the rule of thumb although lat and lon were there
FellBack(i) == args.latlon /\ ~Live(i)

C26_ErrorKept ==
    Ranked =>
        (pvwatts_last_error # "None" <=> \E i \in PvRows : FellBack(i))

-----------------------------------------------------------------------------
(* C27: navigation                                                          *)

NextNav == SidebarSelect \/ CardClick \/ Main \/ Rerun

SpecNav == Init /\ [][NextNav]_vars

\* C27: the key a sidebar pick or a card callback leaves in
\* session_state.page is a value of PAGES and has a branch in _route, so the
\* router has a page to render after every navigation action.
C27_Routable ==
    /\ session_state["page"] \in Range(page_keys)
    /\ route(session_state) # "None"

-----------------------------------------------------------------------------
(* C28: the game's high score                                               *)

NextIdeal == PageIdealSociety \/ GenerateChallenge \/ ResetIdealSociety \/ Rerun

SpecIdeal == Init /\ [][NextIdeal]_vars

IdealRendered ==
    pc \in {"page_ideal_society", "ideal_society_challenge", "ideal_society_reset"}

\* C28: once the page has rendered, ideal_society_high_score equals the
\* greatest sustainability score rendered so far (0.0 at least); no step
\* lowers it; after a press of the reset button no other key starting with
\* ideal_society_ is left and the high score is the one the run had; every
\* rendered score lies in [0, 100].
C28_HighScore ==
    /\ HighScoreKey \in DOMAIN session_state => session_state[HighScoreKey] = rendered
    /\ IdealRendered =>
          /\ HighScoreKey \in DOMAIN session_state
          /\ FLe(Zero, ret) /\ FLe(ret, Q(100, 1))
    /\ pc = "ideal_society_reset" =>
          \A key \in DOMAIN session_state :
              StartsWithIdealSociety(key) => key = HighScoreKey

\* a design scoring below the best so far has been rendered and then reset
C28_Witness ==
    /\ pc = "ideal_society_reset"
    /\ FLt(ret, session_state[HighScoreKey])
    /\ FLt(Q(75, 1), rendered)

-----------------------------------------------------------------------------
(* C29, C30: biomass land and truckloads                                    *)

\* the formula the calculations page documents, in consistent units:
\* MWh to kJ at 3.6e6 kJ per MWh, HHV in kJ/kg, yield at 1000 kg per Mg
DocumentedArea(w) ==
    LET E_elec_year == FMul(FMul(w.plant_mw, Q(8760, 1)), w.cf)
        fuel_kJ == FDiv(FMul(E_elec_year, Q(3600000, 1)), w.net_eff)
    IN  FDiv(FDiv(fuel_kJ, w.HHV_kJkg), FMul(w.yield_Mg_ha_yr, Q(1000, 1)))

BiomassShown ==
    /\ pc \in {"page_pv_tools", "page_energy_calculations"}
    /\ ret.k = "page"
    /\ ret.shown[4].k = "num"

\* C29: the area biomass_poplar_land_for_power returns, as the pages show
\* it, is the area of the documented formula in consistent units.
C29_DocumentedArea == BiomassShown => FEq(ret.shown[4], DocumentedArea(args.w))

\* C30: for the plant inputs of a run of the PV tools page, the truckloads
\* it shows are those of the mass its land area implies (hectares x yield
\* x 1000 kg), and the Energy Calculations page shows the same truckloads
\* for the same inputs.
C30_SameTrucks ==
    (pc = "page_pv_tools" /\ ret.k = "page") =>
        /\ FEq(ret.shown[5],
               trucks_per_day(FMul(FMul(ret.shown[4], args.w.yield_Mg_ha_yr),
                                   Q(1000, 1)),
                              Q(18000, 1)))
        /\ FEq(ret.shown[5], page_energy_calculations(args.w).shown[6])

=============================================================================
